---- MODULE Spec2Model ----
(***************************************************************************)
(* Model of tehisintellekt-qa: the crawl-and-normalize engine             *)
(* (src/crawler.py: Crawler.crawl_site, Crawler._normalize_url,            *)
(* Crawler._should_skip_url, TextCleaner.extract_text and                  *)
(* TextCleaner.smart_truncate), the index build (src/indexer.py:           *)
(* ContentIndexer.index_site and generate_summary) and the query pipeline  *)
(* (src/processor.py: QueryProcessor.ask, find_relevant_pages,             *)
(* build_context and generate_answer).  Each component has its own         *)
(* specification; the variables of the others rest at their Off values.    *)
(*                                                                         *)
(* A Python str is a sequence of tokens.  A token is either one character  *)
(* or a run of characters that no operation of the program splits (a host  *)
(* name, a file extension, a percent-encoded word).  URL delimiters        *)
(* ("://", "/", ";", "?", "&", "=", "#", ":") are tokens of their own, so  *)
(* parsing, re-encoding and suffix tests are computed on the string as     *)
(* the code computes them.                                                 *)
(***************************************************************************)
EXTENDS Integers, Sequences, FiniteSets, Bags, TLC

VARIABLES
    \* ---- Crawler instance (src/crawler.py:19-37) and one crawl_site call
    max_pages,      \* self.max_pages
    visited,        \* self.visited : set of URL strings
    to_visit,       \* local to_visit of crawl_site
    pages,          \* local pages of crawl_site (list of Page)
    base_url,       \* argument of the running / last crawl_site call
    base_domain,    \* local base_domain
    url,            \* local url: the URL popped last
    response,       \* the outcome of the last client.get(url)
    pc,             \* position of crawl_site: idle, loop, fetch, sleep, done
    runs,           \* number of crawl_site calls made on this instance
    fetched,        \* history: how often client.get was called with each
                    \* URL in this run (a bag of URLs)
    delays,         \* history: how often asyncio.sleep(0.1) returned in this
                    \* run
    \* ---- one evaluation of the URL functions
    u_in,           \* argument of _normalize_url
    u_norm,         \* _normalize_url(u_in)
    u_norm2,        \* _normalize_url(u_norm)
    u_skip,         \* _should_skip_url(u_norm)
    u_pc,           \* raw, normalized, renormalized, filtered
    \* ---- one evaluation of TextCleaner.smart_truncate
    t_text,         \* argument text
    t_max,          \* argument max_chars
    t_out,          \* the returned string
    t_pc,           \* called, returned
    \* ---- one evaluation of TextCleaner.extract_text
    e_html,         \* argument html, as the tree html.parser builds from it
    e_soup,         \* local soup: the tree after the removals made so far
    e_out,          \* the returned string
    e_pc,           \* parsed, cleaned, debuttoned, returned
    \* ---- ContentIndexer instance (src/indexer.py:18-43) and one index_site
    summaries,              \* self.summaries : dict url -> PageSummary
    full_content,           \* self.full_content : dict url -> clean text
    total_input_tokens,     \* self.total_input_tokens
    total_output_tokens,    \* self.total_output_tokens
    failed_summaries,       \* self.failed_summaries : list of URLs
    retry_successes,        \* self.retry_successes
    i_pages,        \* local pages of index_site: what crawl_site returned
    i_next,         \* position of the for loop: index of the next page
    i_retry,        \* argument retry of the innermost generate_summary call
    i_pc,           \* position of index_site: idle, loop, summary, done
    i_log,          \* history: every SummaryService call made, in order:
                    \* its url, its retry argument and its outcome
    \* ---- QueryProcessor (src/processor.py) on the built index
    a_question,     \* argument question of the running / last ask call
    a_relevant,     \* local relevant_urls of ask
    a_context,      \* local context of ask
    a_result,       \* the AskResponse the last ask call returned, until
                    \* the next call
    a_selection,    \* history: the outcome of the SelectionService call
    a_answer,       \* history: the outcome of the AnswerService call
    a_pc,           \* position of ask: idle, select, answer, returned
    a_asks,         \* number of ask calls made
    \* ---- one evaluation of QueryProcessor.build_context
    c_urls,         \* argument urls
    c_content,      \* self.indexer.full_content
    c_max,          \* argument max_chars
    c_out,          \* the returned context
    c_pc,           \* called, returned
    \* ---- the application (src/app.py): its globals, lifespan, /ask requests
    api_key,        \* OPENAI_API_KEY is set in the environment
    indexer,        \* the global indexer is not None
    processor,      \* the global processor is not None
    s_pc,           \* position of lifespan: start, indexing, serving, aborted
    r_pc,           \* per request, position of the /ask handler: idle,
                    \* select, answer, done
    r_relevant,     \* per request, local relevant_urls of processor.ask
    r_status        \* per request, status code of the response, 0 if none

crawl_vars == <<max_pages, visited, to_visit, pages, base_url, base_domain,
                url, response, pc, runs, fetched, delays>>
url_vars   == <<u_in, u_norm, u_norm2, u_skip, u_pc>>
trunc_vars == <<t_text, t_max, t_out, t_pc>>
extract_vars == <<e_html, e_soup, e_out, e_pc>>
index_vars == <<summaries, full_content, total_input_tokens,
                total_output_tokens, failed_summaries, retry_successes,
                i_pages, i_next, i_retry, i_pc, i_log>>
ask_vars   == <<a_question, a_relevant, a_context, a_result, a_selection,
                a_answer, a_pc, a_asks>>
context_vars == <<c_urls, c_content, c_max, c_out, c_pc>>
app_vars   == <<api_key, indexer, processor, s_pc, r_pc, r_relevant, r_status>>
late_vars  == <<context_vars, app_vars>>
more_vars  == <<extract_vars, index_vars, ask_vars, late_vars>>
vars       == <<crawl_vars, url_vars, trunc_vars, more_vars>>

----------------------------------------------------------------------------
(* Bounds of the model                                                     *)

MaxPagesBound == 3      \* max_pages ranges over 0..MaxPagesBound
MaxLinks      == 2      \* anchors per fetched page
MaxRuns       == 2      \* crawl_site calls on one Crawler instance
MaxFields     == 2      \* '&'-separated fields of a raw query string
MaxLen        == 5      \* len(text) for smart_truncate
MaxChars      == 6      \* max_chars for smart_truncate
MaxBlocks     == 1      \* top-level elements of an HTML document
MaxCrawled    == 2      \* pages returned by crawl_site to index_site
MaxSelected   == 2      \* URLs named by the selection service
MaxAsks       == 2      \* ask calls on one QueryProcessor
MaxBudget     == 5      \* max_chars of build_context is 50 * (0..MaxBudget)
MaxRequests   == 2      \* /ask requests in flight at the same time

----------------------------------------------------------------------------
(* Python str and list primitives                                          *)

\* s[start:stop] with Python's treatment of negative and out-of-range indexes.
PySlice(s, start, stop) ==
    LET n  == Len(s)
        a0 == IF start < 0 THEN start + n ELSE start
        b0 == IF stop < 0 THEN stop + n ELSE stop
        a  == IF a0 < 0 THEN 0 ELSE IF a0 > n THEN n ELSE a0
        b  == IF b0 < 0 THEN 0 ELSE IF b0 > n THEN n ELSE b0
    IN  IF a >= b THEN <<>> ELSE SubSeq(s, a + 1, b)

\* s.find(t): 1-based index of the first occurrence of token t, 0 if none.
Find(s, t) ==
    IF \E i \in DOMAIN s : s[i] = t
    THEN CHOOSE i \in DOMAIN s : s[i] = t /\ \A j \in 1..(i - 1) : s[j] # t
    ELSE 0

\* s.rfind(t): 1-based index of the last occurrence of token t, 0 if none.
RFind(s, t) ==
    IF \E i \in DOMAIN s : s[i] = t
    THEN CHOOSE i \in DOMAIN s : s[i] = t /\ \A j \in (i + 1)..Len(s) : s[j] # t
    ELSE 0

\* s.split(sep): the list of the pieces between occurrences of token sep.
RECURSIVE Split(_, _)
Split(s, sep) ==
    LET i == Find(s, sep)
    IN  IF i = 0 THEN <<s>>
        ELSE <<SubSeq(s, 1, i - 1)>> \o Split(SubSeq(s, i + 1, Len(s)), sep)

\* sep.join(parts)
RECURSIVE Join(_, _)
Join(parts, sep) ==
    IF parts = <<>> THEN <<>>
    ELSE IF Len(parts) = 1 THEN parts[1]
    ELSE parts[1] \o <<sep>> \o Join(Tail(parts), sep)

\* s in t: s occurs in t as a contiguous substring.
Contains(t, s) ==
    \E i \in 0..(Len(t) - Len(s)) : SubSeq(t, i + 1, i + Len(s)) = s

\* s.strip(): s without its leading and trailing whitespace.
Whitespace == {" ", "\n", "\t"}

Strip(s) ==
    LET inked == { i \in DOMAIN s : s[i] \notin Whitespace }
    IN  IF inked = {} THEN <<>>
        ELSE SubSeq(s, CHOOSE i \in inked : \A j \in inked : i <= j,
                       CHOOSE i \in inked : \A j \in inked : i >= j)

\* [x for x in parts if x]: the non-empty strings of a list.
NonEmpty(parts) == SelectSeq(parts, LAMBDA x : x # <<>>)

\* A Python dict is the list of its items [key, value] in insertion order.
DictKeys(d) == [i \in DOMAIN d |-> d[i].key]

Keys(d) == { d[i].key : i \in DOMAIN d }

DictGet(d, k) == d[CHOOSE i \in DOMAIN d : d[i].key = k].value

\* d[k] = v: an existing key keeps its place, a new key is added at the end
DictSet(d, k, v) ==
    IF k \in Keys(d)
    THEN [i \in DOMAIN d |-> IF d[i].key = k THEN [key |-> k, value |-> v]
                                              ELSE d[i]]
    ELSE Append(d, [key |-> k, value |-> v])

\* s.endswith(suffix)
EndsWith(s, suffix) ==
    /\ Len(suffix) <= Len(s)
    /\ SubSeq(s, Len(s) - Len(suffix) + 1, Len(s)) = suffix

\* str.lower() on one token, and on a string.
LowerToken(t) ==
    CASE t = ".PDF"  -> ".pdf"
      [] t = "HTTPS" -> "https"
      [] t = "Example.com" -> "example.com"
      [] t = "Button" -> "button"
      [] t = "Validation" -> "validation"
      [] OTHER -> t

Lower(s) == [i \in DOMAIN s |-> LowerToken(s[i])]

\* urllib.parse.unquote applied after replacing '+' by ' ' (parse_qsl).
UnquoteToken(t) ==
    CASE t = "utm%5Fmedium" -> "utm_medium"
      [] t = "a%20b"   -> "a b"
      [] t = "a+b"     -> "a b"
      [] t = "a%2520b" -> "a%20b"
      [] t = "a%2Bb"   -> "a+b"
      [] t = "utm%255Fmedium" -> "utm%5Fmedium"
      [] OTHER -> t

\* Mutant: the query string is re-encoded without having been decoded.
UnquoteSkipped(s) == s

Unquote(s) == [i \in DOMAIN s |-> UnquoteToken(s[i])]

\* urllib.parse.quote_plus
QuotePlusToken(t) ==
    CASE t = "a b"     -> "a+b"
      [] t = "a+b"     -> "a%2Bb"
      [] t = "a%20b"   -> "a%2520b"
      [] t = "a%2520b" -> "a%252520b"
      [] t = "utm%5Fmedium" -> "utm%255Fmedium"
      [] OTHER -> t

QuotePlus(s) == [i \in DOMAIN s |-> QuotePlusToken(s[i])]

----------------------------------------------------------------------------
(* urllib.parse as used by the crawler                                     *)

\* The first index of s at or after position from whose token is in stops,
\* Len(s) + 1 if there is none (urllib's _splitnetloc scan).
FirstOf(s, stops, from) ==
    IF \E i \in from..Len(s) : s[i] \in stops
    THEN CHOOSE i \in from..Len(s) :
            s[i] \in stops /\ \A j \in from..(i - 1) : s[j] \notin stops
    ELSE Len(s) + 1

\* urllib's _splitparams: parameters follow the first ';' of the last path
\* segment.
SplitParams(path) ==
    LET slash == RFind(path, "/")
        semi  == FirstOf(path, {";"}, slash + 1)
    IN  IF semi > Len(path)
        THEN [path |-> path, params |-> <<>>]
        ELSE [path   |-> SubSeq(path, 1, semi - 1),
              params |-> SubSeq(path, semi + 1, Len(path))]

\* urlparse(url) of an absolute URL: scheme (lower-cased), netloc up to the
\* first of / ? #, then fragment, query and params split off in that order.
urlparse(s) ==
    LET colon    == Find(s, "://")
        scheme   == Lower(SubSeq(s, 1, colon - 1))
        rest     == SubSeq(s, colon + 1, Len(s))
        netEnd   == FirstOf(rest, {"/", "?", "#"}, 1)
        netloc   == SubSeq(rest, 1, netEnd - 1)
        tail     == SubSeq(rest, netEnd, Len(rest))
        hash     == Find(tail, "#")
        noFrag   == IF hash = 0 THEN tail ELSE SubSeq(tail, 1, hash - 1)
        fragment == IF hash = 0 THEN <<>> ELSE SubSeq(tail, hash + 1, Len(tail))
        qmark    == Find(noFrag, "?")
        fullPath == IF qmark = 0 THEN noFrag ELSE SubSeq(noFrag, 1, qmark - 1)
        query    == IF qmark = 0 THEN <<>>
                    ELSE SubSeq(noFrag, qmark + 1, Len(noFrag))
        pp       == IF Find(fullPath, ";") = 0
                    THEN [path |-> fullPath, params |-> <<>>]
                    ELSE SplitParams(fullPath)
    IN  [scheme |-> scheme, netloc |-> netloc, path |-> pp.path,
         params |-> pp.params, query |-> query, fragment |-> fragment]

\* urlunparse((scheme, netloc, path, params, query, fragment))
urlunparse(p) ==
    LET withParams == IF p.params = <<>> THEN p.path
                      ELSE p.path \o <<";">> \o p.params
        rooted     == IF withParams # <<>> /\ Head(withParams) # "/"
                      THEN <<"/">> \o withParams ELSE withParams
    IN  p.scheme \o <<"://">> \o p.netloc \o rooted
          \o (IF p.query = <<>> THEN <<>> ELSE <<"?">> \o p.query)
          \o (IF p.fragment = <<>> THEN <<>> ELSE <<"#">> \o p.fragment)

\* ParseResult.hostname: the netloc without its port, lower-cased.
hostname(netloc) ==
    LET colon == Find(netloc, ":")
    IN  Lower(IF colon = 0 THEN netloc ELSE SubSeq(netloc, 1, colon - 1))

\* One field "name=value" of a query string as parse_qsl reads it with
\* keep_blank_values=False: a field without '=' or with an empty value yields
\* nothing; name and value are unquoted.
ParseField(field) ==
    LET eq == Find(field, "=")
    IN  IF eq = 0 \/ eq = Len(field) THEN <<>>
        ELSE << [name  |-> Unquote(SubSeq(field, 1, eq - 1)),
                 value |-> Unquote(SubSeq(field, eq + 1, Len(field)))] >>

\* parse_qsl(query): the (name, value) pairs in order of appearance.
RECURSIVE ParseFields(_)
ParseFields(fields) ==
    IF fields = <<>> THEN <<>>
    ELSE ParseField(Head(fields)) \o ParseFields(Tail(fields))

parse_qsl(query) ==
    IF query = <<>> THEN <<>> ELSE ParseFields(Split(query, "&"))

\* parse_qs(query): a dict name -> list of values.  A Python dict keeps its
\* keys in insertion order, so it is a sequence of [name, values] items in the
\* order each name first appears.
RECURSIVE GroupPairs(_, _)
GroupPairs(pairs, dict) ==
    IF pairs = <<>> THEN dict
    ELSE LET p == Head(pairs)
             known == \E i \in DOMAIN dict : dict[i].name = p.name
             next == IF known
                     THEN [i \in DOMAIN dict |->
                             IF dict[i].name = p.name
                             THEN [dict[i] EXCEPT !.values = Append(@, p.value)]
                             ELSE dict[i]]
                     ELSE Append(dict, [name |-> p.name, values |-> <<p.value>>])
         IN  GroupPairs(Tail(pairs), next)

parse_qs(query) == GroupPairs(parse_qsl(query), <<>>)

\* The "k=v" strings urlencode(dict, doseq=True) emits for one dict item.
ItemFields(item) ==
    [i \in DOMAIN item.values |->
        QuotePlus(item.name) \o <<"=">> \o QuotePlus(item.values[i])]

RECURSIVE EncodeItems(_)
EncodeItems(dict) ==
    IF dict = <<>> THEN <<>>
    ELSE ItemFields(Head(dict)) \o EncodeItems(Tail(dict))

\* urlencode(dict, doseq=True)
urlencode(dict) == Join(EncodeItems(dict), "&")

----------------------------------------------------------------------------
(* Crawler._normalize_url and Crawler._should_skip_url                     *)

utm_params == { <<"utm_source">>, <<"utm_medium">>, <<"utm_campaign">>,
                <<"utm_content">>, <<"utm_term">> }

\* {k: v for k, v in query_params.items() if k not in utm_params}
filtered_params(query_params) ==
    SelectSeq(query_params, LAMBDA item : item.name \notin utm_params)

_normalize_url(s) ==
    LET parsed    == urlparse(s)
        kept      == filtered_params(parse_qs(parsed.query))
        new_query == IF kept # <<>> THEN urlencode(kept) ELSE <<>>
    IN  urlunparse([scheme |-> parsed.scheme, netloc |-> parsed.netloc,
                    path |-> parsed.path, params |-> parsed.params,
                    query |-> new_query, fragment |-> <<>>])

skip_extensions == { <<".pdf">>, <<".jpg">>, <<".jpeg">>, <<".png">>,
                     <<".gif">>, <<".zip">>, <<".mp4">> }

_should_skip_url(s) ==
    \E ext \in skip_extensions : EndsWith(Lower(s), ext)


----------------------------------------------------------------------------
(* The values the variables of a component hold while it is not running    *)

CrawlerOff ==
    /\ max_pages = 0 /\ visited = {} /\ to_visit = {} /\ pages = <<>>
    /\ base_url = <<>> /\ base_domain = <<>> /\ url = <<>>
    /\ response = [error |-> "none", status_code |-> 0,
                   content_type |-> "", links |-> {}]
    /\ pc = "off" /\ runs = 0 /\ fetched = EmptyBag /\ delays = 0

UrlOff ==
    /\ u_in = <<>> /\ u_norm = <<>> /\ u_norm2 = <<>> /\ u_skip = FALSE
    /\ u_pc = "off"

TruncOff ==
    /\ t_text = <<>> /\ t_max = 0 /\ t_out = <<>> /\ t_pc = "off"

ExtractOff ==
    /\ e_html = <<>> /\ e_soup = <<>> /\ e_out = <<>> /\ e_pc = "off"

IndexOff ==
    /\ summaries = <<>> /\ full_content = <<>>
    /\ total_input_tokens = 0 /\ total_output_tokens = 0
    /\ failed_summaries = <<>> /\ retry_successes = 0
    /\ i_pages = <<>> /\ i_next = 0 /\ i_retry = 0 /\ i_pc = "off"
    /\ i_log = <<>>

NoSelection == [kind |-> "none", relevant_urls |-> <<>>, error |-> <<>>]

NoResult ==
    [user_question |-> <<>>, answer |-> <<>>,
     usage |-> [input_tokens |-> 0, output_tokens |-> 0], sources |-> <<>>]

NoAnswer ==
    [kind |-> "none", usage |-> [present |-> FALSE, prompt_tokens |-> 0,
                                 completion_tokens |-> 0],
     sources_used |-> <<>>, error |-> <<>>]

AskOff ==
    /\ a_question = <<>> /\ a_relevant = <<>> /\ a_context = <<>>
    /\ a_result = NoResult /\ a_selection = NoSelection
    /\ a_answer = NoAnswer
    /\ a_pc = "off" /\ a_asks = 0

ContextOff ==
    /\ c_urls = <<>> /\ c_content = <<>> /\ c_max = 0 /\ c_out = <<>>
    /\ c_pc = "off"

Requests == 1..MaxRequests

AppOff ==
    /\ api_key = FALSE /\ indexer = FALSE /\ processor = FALSE
    /\ s_pc = "off"
    /\ r_pc = [r \in Requests |-> "off"]
    /\ r_relevant = [r \in Requests |-> <<>>]
    /\ r_status = [r \in Requests |-> 0]

LateOff == ContextOff /\ AppOff

MoreOff == ExtractOff /\ IndexOff /\ AskOff /\ LateOff

----------------------------------------------------------------------------
(* SpecUrl: _normalize_url and _should_skip_url applied to absolute URLs   *)

RawSchemes == { <<"https">>, <<"HTTPS">> }
RawNetlocs == { <<"example.com">>, <<"Example.com">> }
RawPaths   == { <<"/">>, <<"/", "a">>, <<"/", "doc", ".pdf">> }
RawParams  == { <<>>, <<";", "v">> }
RawFragments == { <<>>, <<"#", "top">> }

\* The '&'-separated fields a raw query string is made of.
RawFields ==
    { <<"id", "=", "1">>, <<"id", "=", "2">>, <<"utm_source", "=", "x">>,
      <<"utm%5Fmedium", "=", "x">>, <<"flag">>, <<"page", "=">>,
      <<"q", "=", "a%20b">>, <<"f", "=", "doc", ".pdf">> }

RECURSIVE QueriesOf(_)
QueriesOf(n) ==
    IF n = 0 THEN { <<>> }
    ELSE LET shorter == QueriesOf(n - 1)
         IN  shorter \cup
             { IF q = <<>> THEN f ELSE q \o <<"&">> \o f :
                   q \in shorter, f \in RawFields }

RawQueries == QueriesOf(MaxFields)

RawUrls ==
    { sc \o <<"://">> \o nl \o pa \o pr
         \o (IF q = <<>> THEN <<>> ELSE <<"?">> \o q) \o fr :
        sc \in RawSchemes, nl \in RawNetlocs, pa \in RawPaths,
        pr \in RawParams, q \in RawQueries, fr \in RawFragments }

InitUrl ==
    /\ CrawlerOff /\ TruncOff /\ MoreOff
    /\ u_in \in RawUrls
    /\ u_norm = <<>> /\ u_norm2 = <<>> /\ u_skip = FALSE
    /\ u_pc = "raw"

\* normalized_url = self._normalize_url(full_url)
Normalize ==
    /\ u_pc = "raw"
    /\ u_norm' = _normalize_url(u_in)
    /\ u_pc' = "normalized"
    /\ UNCHANGED <<u_in, u_norm2, u_skip, crawl_vars, trunc_vars, more_vars>>

\* the normalized URL normalized again
Renormalize ==
    /\ u_pc = "normalized"
    /\ u_norm2' = _normalize_url(u_norm)
    /\ u_pc' = "renormalized"
    /\ UNCHANGED <<u_in, u_norm, u_skip, crawl_vars, trunc_vars, more_vars>>

\* self._should_skip_url(normalized_url)
Filter ==
    /\ u_pc = "renormalized"
    /\ u_skip' = _should_skip_url(u_norm)
    /\ u_pc' = "filtered"
    /\ UNCHANGED <<u_in, u_norm, u_norm2, crawl_vars, trunc_vars, more_vars>>

NextUrl == Normalize \/ Renormalize \/ Filter

SpecUrl == InitUrl /\ [][NextUrl]_vars

----------------------------------------------------------------------------
(* TextCleaner.smart_truncate                                              *)

\* The literal "\n\n[...]\n\n", character by character.
Separator == << "\n", "\n", "[", ".", ".", ".", "]", "\n", "\n" >>

\* Mutant: the comparison of line 232 made strict.
fits_strict(text, max_chars) == Len(text) < max_chars

\* if len(text) <= max_chars
fits(text, max_chars) == Len(text) <= max_chars

smart_truncate(text, max_chars) ==
    IF fits(text, max_chars) THEN text
    ELSE LET part_size  == max_chars \div 3
             start      == PySlice(text, 0, part_size)
             middle_idx == Len(text) \div 2
             middle     == PySlice(text, middle_idx - part_size \div 2,
                                         middle_idx + part_size \div 2)
             end        == PySlice(text, -part_size, Len(text))
         IN  start \o Separator \o middle \o Separator \o end

----------------------------------------------------------------------------
(* SpecTruncate: smart_truncate applied to every short text and budget     *)

TextChars == {"a", "b", "c"}

RECURSIVE TextsOfLen(_)
TextsOfLen(n) ==
    IF n = 0 THEN { <<>> }
    ELSE { Append(t, c) : t \in TextsOfLen(n - 1), c \in TextChars }

Texts == UNION { TextsOfLen(n) : n \in 0..MaxLen }

InitTruncate ==
    /\ CrawlerOff /\ UrlOff /\ MoreOff
    /\ t_text \in Texts
    /\ t_max \in 0..MaxChars
    /\ t_out = <<>>
    /\ t_pc = "called"

\* TextCleaner.smart_truncate(text, max_chars) returns
Truncate ==
    /\ t_pc = "called"
    /\ t_out' = smart_truncate(t_text, t_max)
    /\ t_pc' = "returned"
    /\ UNCHANGED <<t_text, t_max, crawl_vars, url_vars, more_vars>>

NextTruncate == Truncate

SpecTruncate == InitTruncate /\ [][NextTruncate]_vars

----------------------------------------------------------------------------
(* Crawler.crawl_site                                                      *)
(*                                                                         *)
(* One Crawler instance; crawl_site may be called on it MaxRuns times.     *)
(* The site is any link graph over Hrefs: each fetch returns any outcome   *)
(* and, with a body, any set of at most MaxLinks anchors.  A Page is       *)
(* represented by its url (its html is not read by the crawler again).     *)
(* The debug_info lists (lines 32-37, 68, 80-94) record what the loop did  *)
(* and are read by no branch; they are not part of the state here.         *)

Site == << "https", "://", "example.com" >>

\* The absolute URLs urljoin(url, link['href']) yields for the anchors of the
\* site's pages.
Hrefs ==
    { Site \o <<"/">>,
      Site \o <<"/", "#", "top">>,
      Site \o <<"/", "a">>,
      Site \o <<"/", "a", "?", "id", "=", "1">>,
      Site \o <<"/", "doc", ".pdf">>,
      << "https", "://", "sub.", "example.com", "/" >>,
      << "https", "://", "external.com", "/" >> }

\* The base_url arguments crawl_site is called with.
Seeds ==
    { Site \o <<"/">>,
      Site \o <<"/", "#", "top">>,
      Site \o <<"/", "a">> }

LinkSets == { L \in SUBSET Hrefs : Cardinality(L) <= MaxLinks }

NoResponse ==
    [error |-> "none", status_code |-> 0, content_type |-> "", links |-> {}]

\* What `await client.get(url)` can produce: an httpx.HTTPError (network
\* error, timeout), any other exception, or a response.
Responses ==
    { [error |-> e, status_code |-> 0, content_type |-> "", links |-> {}] :
          e \in {"HTTPError", "Exception"} }
    \cup
    { [error |-> "none", status_code |-> st, content_type |-> ct, links |-> L] :
          st \in {200, 204, 404},
          ct \in {"text/html; charset=utf-8", "application/pdf"},
          L \in LinkSets }

\* 'text/html' in response.headers.get('content-type', '')
HasTextHtml(ct) == ct \in {"text/html", "text/html; charset=utf-8"}

\* Mutant: the content type is not looked at.
FetchSucceededAnyType(resp) ==
    resp.error = "none" /\ resp.status_code = 200

\* client.get returned, and line 66 holds
FetchSucceeded(resp) ==
    /\ resp.error = "none"
    /\ resp.status_code = 200
    /\ HasTextHtml(resp.content_type)

\* Mutant: only httpx.HTTPError is caught.
CaughtHTTPErrorOnly(error) == error = "HTTPError"

\* the except clauses of lines 98-101 catch the exception
Caught(error) == error \in {"HTTPError", "Exception"}

\* Mutant: a subdomain of the base domain passes.
SameDomainSuffix(netloc, base) == EndsWith(netloc, base)

\* parsed.netloc == base_domain
SameDomain(netloc, base) == netloc = base

\* The URLs the link loop of lines 72-96 inserts into to_visit.
LinksToFollow(links, base, seen) ==
    { n \in { _normalize_url(h) : h \in links } :
          /\ SameDomain(urlparse(n).netloc, base)
          /\ ~_should_skip_url(n)
          /\ n \notin seen }

\* Mutant: the two conditions joined by "or".
LoopConditionOr(frontier, found, limit) ==
    frontier # {} \/ Len(found) < limit

\* Mutant: the page limit compared with <=.
LoopConditionInclusive(frontier, found, limit) ==
    frontier # {} /\ Len(found) <= limit

\* while to_visit and len(pages) < self.max_pages
LoopCondition(frontier, found, limit) ==
    frontier # {} /\ Len(found) < limit

\* Mutant: the page is recorded under its normalized URL.
PageNormalized(u) == [url |-> _normalize_url(u)]

\* line 67: Page(url=url, html=response.text); the html is not modelled
Page(u) == [url |-> u]

Init ==
    /\ UrlOff /\ TruncOff /\ MoreOff
    /\ max_pages \in 0..MaxPagesBound
    /\ visited = {}
    /\ to_visit = {} /\ pages = <<>>
    /\ base_url = <<>> /\ base_domain = <<>> /\ url = <<>>
    /\ response = NoResponse
    /\ pc = "idle" /\ runs = 0 /\ fetched = EmptyBag /\ delays = 0

\* crawl_site(base_url) is called: lines 49-51
CrawlSite ==
    /\ pc \in {"idle", "done"}
    /\ runs < MaxRuns
    /\ \E seed \in Seeds :
          /\ base_url' = seed
          /\ to_visit' = {seed}
          /\ base_domain' = urlparse(seed).netloc
    /\ pages' = <<>>
    /\ url' = <<>> /\ response' = NoResponse /\ fetched' = EmptyBag
    /\ delays' = 0
    /\ runs' = runs + 1
    /\ pc' = "loop"
    /\ UNCHANGED <<max_pages, visited, url_vars, trunc_vars, more_vars>>

\* lines 54-58: a URL already in self.visited is popped and dropped
PopDuplicate ==
    /\ pc = "loop"
    /\ LoopCondition(to_visit, pages, max_pages)
    /\ \E u \in to_visit :
          /\ u \in visited
          /\ to_visit' = to_visit \ {u}
          /\ url' = u
    /\ UNCHANGED <<max_pages, visited, pages, base_url, base_domain, response,
                   pc, runs, fetched, delays, url_vars, trunc_vars, more_vars>>

\* lines 54-61: a new URL is popped and marked visited
PopNew ==
    /\ pc = "loop"
    /\ LoopCondition(to_visit, pages, max_pages)
    /\ \E u \in to_visit :
          /\ u \notin visited
          /\ to_visit' = to_visit \ {u}
          /\ visited' = visited \cup {u}
          /\ url' = u
    /\ pc' = "fetch"
    /\ UNCHANGED <<max_pages, pages, base_url, base_domain, response, runs,
                   fetched, delays, url_vars, trunc_vars, more_vars>>

\* lines 63-101: client.get(url) completes or raises, and its outcome is
\* handled
Fetch ==
    /\ pc = "fetch"
    /\ fetched' = fetched (+) SetToBag({url})
    /\ \E resp \in Responses :
          /\ response' = resp
          /\ IF FetchSucceeded(resp)
             THEN /\ pages' = Append(pages, Page(url))
                  /\ to_visit' = to_visit \cup
                                   LinksToFollow(resp.links, base_domain, visited)
             ELSE UNCHANGED <<pages, to_visit>>
          /\ pc' = IF resp.error = "none" \/ Caught(resp.error)
                   THEN "sleep" ELSE "raised"
    /\ UNCHANGED <<max_pages, visited, base_url, base_domain, url, runs,
                   delays, url_vars, trunc_vars, more_vars>>

\* line 104: await asyncio.sleep(0.1).  The local response is not read
\* after the try block; it is forgotten here.
Sleep ==
    /\ pc = "sleep"
    /\ pc' = "loop"
    /\ response' = NoResponse
    /\ delays' = delays + 1
    /\ UNCHANGED <<max_pages, visited, to_visit, pages, base_url, base_domain,
                   url, runs, fetched, url_vars, trunc_vars, more_vars>>

\* lines 106-111: the loop condition fails; the debug log is saved (its own
\* failures are caught, lines 165-182) and pages is returned
Return ==
    /\ pc = "loop"
    /\ ~LoopCondition(to_visit, pages, max_pages)
    /\ pc' = "done"
    /\ UNCHANGED <<max_pages, visited, to_visit, pages, base_url, base_domain,
                   url, response, runs, fetched, delays, url_vars, trunc_vars,
                   more_vars>>

Running == PopDuplicate \/ PopNew \/ Fetch \/ Sleep \/ Return

Next == CrawlSite \/ PopDuplicate \/ PopNew \/ Fetch \/ Sleep \/ Return

Spec == Init /\ [][Next]_vars

\* The event loop resumes the coroutine, and every fetch completes or fails.
FairSpec == Spec /\ WF_vars(Running)

----------------------------------------------------------------------------
(* TextCleaner.extract_text                                                *)
(*                                                                         *)
(* The html argument is represented by the tree html.parser builds from    *)
(* it: a list of nodes.  A text node has the name "" and its string; an    *)
(* element has its tag name, its class attribute (the list of its class    *)
(* values, <<>> when the attribute is absent) and its contents.            *)

TextNode(s) ==
    [name |-> "", class |-> <<>>, string |-> s, contents |-> <<>>]

Element(tag, cls, inner) ==
    [name |-> tag, class |-> cls, string |-> <<>>, contents |-> inner]

\* lines 202-203: the tag names passed to soup(...)
unwanted ==
    { "script", "style", "nav", "footer", "header",
      "iframe", "noscript", "meta", "link", "button" }

\* Mutant: nav is missing from the list of tags to remove.
IsUnwantedExceptNav(node) == node.name \in unwanted \ {"nav"}

IsUnwanted(node) == node.name \in unwanted

\* line 207: lambda x: x and 'button' in x.lower()
IsButtonClass(x) == x # <<>> /\ Contains(Lower(x), <<"button">>)

\* line 207: find_all('a', class_=f) matches an a element when f holds of one
\* of its class values or of all of them joined by a space; f(None) is falsy.
IsButtonLink(node) ==
    /\ node.name = "a"
    /\ node.class # <<>>
    /\ \/ \E i \in DOMAIN node.class : IsButtonClass(node.class[i])
       \/ IsButtonClass(Join(node.class, " "))

\* lines 202-204: every unwanted element is decomposed, with its subtree
RECURSIVE RemoveUnwanted(_)
RemoveUnwanted(nodes) ==
    IF nodes = <<>> THEN <<>>
    ELSE LET node == Head(nodes)
             rest == RemoveUnwanted(Tail(nodes))
         IN  IF IsUnwanted(node) THEN rest
             ELSE << [node EXCEPT !.contents = RemoveUnwanted(node.contents)] >>
                    \o rest

\* lines 207-208: every button-like link is decomposed, with its subtree
RECURSIVE RemoveButtons(_)
RemoveButtons(nodes) ==
    IF nodes = <<>> THEN <<>>
    ELSE LET node == Head(nodes)
             rest == RemoveButtons(Tail(nodes))
         IN  IF IsButtonLink(node) THEN rest
             ELSE << [node EXCEPT !.contents = RemoveButtons(node.contents)] >>
                    \o rest

\* the strings of the text nodes of a tree, in document order
RECURSIVE Strings(_)
Strings(nodes) ==
    IF nodes = <<>> THEN <<>>
    ELSE LET node == Head(nodes)
         IN  (IF node.name = "" THEN << node.string >>
              ELSE Strings(node.contents)) \o Strings(Tail(nodes))

StripAll(parts) == [i \in DOMAIN parts |-> Strip(parts[i])]

\* line 211: soup.get_text(separator='\n', strip=True): every string is
\* stripped, the empty ones are dropped, the rest is joined by the separator
get_text(nodes) == Join(NonEmpty(StripAll(Strings(nodes))), "\n")

\* lines 214-215
clean_text(text) == Join(NonEmpty(StripAll(Split(text, "\n"))), "\n")

extract_text(html) ==
    clean_text(get_text(RemoveButtons(RemoveUnwanted(html))))

----------------------------------------------------------------------------
(* SpecExtract: extract_text applied to every small document               *)

\* strings of text nodes: padded, spanning two lines, blank
HtmlStrings ==
    { << "x" >>, << " ", "y", " " >>, << "x", "\n", " ", "y" >>,
      << " ", "\n" >> }

ButtonClasses == { << <<"btn">>, <<"Button", "-", "cta">> >> }

PlainClasses == { <<>>, << <<"link">> >> }

\* the elements a document starts with: [name, class]
OuterTags ==
    { [name |-> t, class |-> <<>>] :
          t \in {"script", "style", "nav", "header", "footer", "div"} }
    \cup { [name |-> "a", class |-> c] : c \in PlainClasses \cup ButtonClasses }

\* the elements nested in them
InnerTags == {"nav", "p"}

\* an element holding a string and at most one nested element with a string
Blocks ==
    { Element(o.name, o.class, << TextNode(s) >> \o inner) :
          o \in OuterTags, s \in HtmlStrings,
          inner \in { <<>> } \cup
                    { << Element(t, <<>>, << TextNode(s2) >>) >> :
                          t \in InnerTags, s2 \in HtmlStrings } }

RECURSIVE DocumentsOf(_)
DocumentsOf(n) ==
    IF n = 0 THEN { <<>> }
    ELSE { <<>> } \cup
         { << b >> \o d : b \in Blocks, d \in DocumentsOf(n - 1) }

Documents == DocumentsOf(MaxBlocks)

InitExtract ==
    /\ CrawlerOff /\ UrlOff /\ TruncOff /\ IndexOff /\ AskOff /\ LateOff
    /\ e_html \in Documents
    /\ e_soup = e_html
    /\ e_out = <<>>
    /\ e_pc = "parsed"

\* lines 202-204
DecomposeUnwanted ==
    /\ e_pc = "parsed"
    /\ e_soup' = RemoveUnwanted(e_soup)
    /\ e_pc' = "cleaned"
    /\ UNCHANGED <<e_html, e_out, crawl_vars, url_vars, trunc_vars,
                   index_vars, ask_vars, late_vars>>

\* lines 207-208
DecomposeButtons ==
    /\ e_pc = "cleaned"
    /\ e_soup' = RemoveButtons(e_soup)
    /\ e_pc' = "debuttoned"
    /\ UNCHANGED <<e_html, e_out, crawl_vars, url_vars, trunc_vars,
                   index_vars, ask_vars, late_vars>>

\* lines 211-217
GetText ==
    /\ e_pc = "debuttoned"
    /\ e_out' = clean_text(get_text(e_soup))
    /\ e_pc' = "returned"
    /\ UNCHANGED <<e_html, e_soup, crawl_vars, url_vars, trunc_vars,
                   index_vars, ask_vars, late_vars>>

NextExtract == DecomposeUnwanted \/ DecomposeButtons \/ GetText

SpecExtract == InitExtract /\ [][NextExtract]_vars

----------------------------------------------------------------------------
(* ContentIndexer.index_site and ContentIndexer.generate_summary           *)
(* (src/indexer.py)                                                        *)
(*                                                                         *)
(* One ContentIndexer instance, on which index_site is called once (the    *)
(* application builds the index once, at start-up: src/app.py:25-57).  Its *)
(* own Crawler returns pages with pairwise different URLs.  A crawled page *)
(* is represented by its url and by the clean text extract_text yields     *)
(* from its html.  Such a text is represented by its identity and its      *)
(* length: [body, len] is the string of the first len characters of the    *)
(* text called body.  The prompt built from smart_truncate(content, 15000) *)
(* (lines 115-176) is sent to the service and read by nothing else; the    *)
(* service's answer is any outcome.                                        *)

Text(body, n) == [body |-> body, len |-> n]

\* text[:k], with Python's treatment of a negative k
Prefix(text, k) ==
    LET stop == IF k < 0 THEN text.len + k ELSE k
    IN  [text EXCEPT !.len = IF stop < 0 THEN 0
                             ELSE IF stop > text.len THEN text.len ELSE stop]

\* Mutants of the length test of line 65.
TooShortNever(text) == FALSE

TooShortOffByOne(text) == text.len < 99

\* line 65: len(clean_text.strip()) < 100; the text extract_text returns has
\* no surrounding whitespace, strip() leaves it as it is
TooShort(text) == text.len < 100

\* response.usage (line 179): absent, or the token counts of the call
NoUsage == [present |-> FALSE, prompt_tokens |-> 0, completion_tokens |-> 0]

SomeUsage == [present |-> TRUE, prompt_tokens |-> 2, completion_tokens |-> 1]

\* str(e) of the exceptions the try block of lines 119-184 can raise
ValidationErrorText ==
    << "1", " ", "validation", " ", "error", " ", "for", " ", "PageSummary" >>

JSONDecodeErrorText == << "Expecting", " ", "value" >>

ConnectionErrorText == << "Connection", " ", "error" >>

BadRequestErrorText ==
    << "Error", " ", "code", ":", " ", "400", " ", "-", " ",
       "Validation", " ", "error" >>

\* The outcomes of one SummaryService call (lines 120-184): a response whose
\* content is a valid PageSummary; a response that PageSummary(**data)
\* rejects; a response json.loads rejects; no response, an API error.
SummaryOutcomes ==
    { [kind |-> "summary", usage |-> u, error |-> <<>>] :
          u \in {NoUsage, SomeUsage} }
    \cup { [kind |-> "invalid_summary", usage |-> SomeUsage,
            error |-> ValidationErrorText],
           [kind |-> "invalid_json", usage |-> SomeUsage,
            error |-> JSONDecodeErrorText],
           [kind |-> "api_error", usage |-> NoUsage,
            error |-> ConnectionErrorText],
           [kind |-> "api_error", usage |-> NoUsage,
            error |-> BadRequestErrorText] }

Failed(outcome) == outcome.error # <<>>

\* line 190: "validation error" in str(e).lower()
IsValidationError(e) == Contains(Lower(e), << "validation", " ", "error" >>)

\* Mutant: every failure of the first call is retried.
RetryAllowedAnyError(retry, e) == retry = 0

\* line 190
RetryAllowed(retry, e) == retry = 0 /\ IsValidationError(e)

\* the PageSummary a valid response is parsed into (lines 183-184)
ServiceSummary ==
    [topics |-> << "AI" >>, key_points |-> << "k" >>,
     potential_questions |-> << "q" >>, summary |-> Text("llm", 40)]

\* Mutant: the whole content is kept as the summary.
MinimalSummaryUncut(content) ==
    [topics |-> << "Error processing page" >>, key_points |-> <<>>,
     potential_questions |-> <<>>, summary |-> content]

\* lines 202-207
MinimalSummary(content) ==
    [topics |-> << "Error processing page" >>, key_points |-> <<>>,
     potential_questions |-> <<>>, summary |-> Prefix(content, 500)]

\* Mutant: the failure of the service leaves generate_summary as an exception.
FallbackRaises(content) == [raised |-> TRUE, value |-> MinimalSummary(content)]

\* lines 199-207: how generate_summary ends after a failure that is not
\* retried: it returns the minimal summary (PageSummary has no constraint
\* that could reject it, src/models.py:27-32)
Fallback(content) == [raised |-> FALSE, value |-> MinimalSummary(content)]

\* Mutant: the URL is recorded twice.
RecordFailureTwice(failed, u) == Append(Append(failed, u), u)

\* line 201: self.failed_summaries.append(url)
RecordFailure(failed, u) == Append(failed, u)

PageUrl(i) == Site \o << "/", "page", ToString(i) >>

\* clean-text lengths around the thresholds of lines 65 and 206
TextLens == { 99, 100, 600 }

\* what crawl_site can return: at most MaxCrawled pages
CrawlResults ==
    UNION { { [i \in 1..n |-> [url |-> PageUrl(i),
                               text |-> Text(ToString(i), f[i])]] :
                  f \in [1..n -> TextLens] } : n \in 0..MaxCrawled }

page == i_pages[i_next]

InitIndex ==
    /\ CrawlerOff /\ UrlOff /\ TruncOff /\ ExtractOff /\ AskOff /\ LateOff
    /\ summaries = <<>> /\ full_content = <<>>
    /\ total_input_tokens = 0 /\ total_output_tokens = 0
    /\ failed_summaries = <<>> /\ retry_successes = 0
    /\ i_pages = <<>> /\ i_next = 0 /\ i_retry = 0 /\ i_pc = "idle"
    /\ i_log = <<>>

not_index_vars == <<crawl_vars, url_vars, trunc_vars, extract_vars, ask_vars,
                    late_vars>>

\* lines 45-57: index_site is called and crawl_site returns
IndexSite ==
    /\ i_pc = "idle"
    /\ \E result \in CrawlResults : i_pages' = result
    /\ i_next' = 1
    /\ i_pc' = "loop"
    /\ UNCHANGED <<summaries, full_content, total_input_tokens,
                   total_output_tokens, failed_summaries, retry_successes,
                   i_retry, i_log, not_index_vars>>

\* lines 60-67: the next page has too little text and is skipped
SkipPage ==
    /\ i_pc = "loop"
    /\ i_next <= Len(i_pages)
    /\ TooShort(page.text)
    /\ i_next' = i_next + 1
    /\ UNCHANGED <<summaries, full_content, total_input_tokens,
                   total_output_tokens, failed_summaries, retry_successes,
                   i_pages, i_retry, i_pc, i_log, not_index_vars>>

\* Mutant: the text is not stored before the summary is asked for.
StoreContentSkipped(content, u, text) == content

\* line 69: self.full_content[page.url] = clean_text
StoreContent(content, u, text) == DictSet(content, u, text)

\* lines 60-72 and 115-176: the text of the next page is stored and
\* generate_summary(page.url, clean_text) awaits the service
StorePage ==
    /\ i_pc = "loop"
    /\ i_next <= Len(i_pages)
    /\ ~TooShort(page.text)
    /\ full_content' = StoreContent(full_content, page.url, page.text)
    /\ i_retry' = 0
    /\ i_pc' = "summary"
    /\ UNCHANGED <<summaries, total_input_tokens, total_output_tokens,
                   failed_summaries, retry_successes, i_pages, i_next, i_log,
                   not_index_vars>>

\* Mutant: the tokens are counted only after the response has been parsed.
CountTokensOnceParsed(outcome) ==
    /\ total_input_tokens' =
           total_input_tokens +
           (IF outcome.usage.present /\ outcome.error = <<>>
            THEN outcome.usage.prompt_tokens ELSE 0)
    /\ total_output_tokens' =
           total_output_tokens +
           (IF outcome.usage.present /\ outcome.error = <<>>
            THEN outcome.usage.completion_tokens ELSE 0)

\* lines 178-181, for the call that returned or raised outcome
CountTokens(outcome) ==
    /\ total_input_tokens' =
           total_input_tokens +
           (IF outcome.usage.present THEN outcome.usage.prompt_tokens ELSE 0)
    /\ total_output_tokens' =
           total_output_tokens +
           (IF outcome.usage.present THEN outcome.usage.completion_tokens
            ELSE 0)

Logged(outcome) ==
    Append(i_log, [url |-> page.url, retry |-> i_retry, outcome |-> outcome])

\* lines 178-184, 194-195 and 73: the service answers with a valid summary;
\* a retry that ends counts as a retry success; index_site stores the summary
SummaryReturned ==
    /\ i_pc = "summary"
    /\ \E outcome \in SummaryOutcomes :
          /\ ~Failed(outcome)
          /\ CountTokens(outcome)
          /\ i_log' = Logged(outcome)
    /\ retry_successes' = retry_successes + (IF i_retry = 1 THEN 1 ELSE 0)
    /\ summaries' = DictSet(summaries, page.url, ServiceSummary)
    /\ i_retry' = 0
    /\ i_next' = i_next + 1
    /\ i_pc' = "loop"
    /\ UNCHANGED <<full_content, failed_summaries, i_pages, not_index_vars>>

\* lines 178-193: the first call fails with a validation error and
\* generate_summary calls itself with retry=1
SummaryRetried ==
    /\ i_pc = "summary"
    /\ \E outcome \in SummaryOutcomes :
          /\ Failed(outcome)
          /\ RetryAllowed(i_retry, outcome.error)
          /\ CountTokens(outcome)
          /\ i_log' = Logged(outcome)
    /\ i_retry' = 1
    /\ UNCHANGED <<summaries, full_content, failed_summaries, retry_successes,
                   i_pages, i_next, i_pc, not_index_vars>>

\* lines 178-190, 199-207, 194-195 and 73-78: the call fails and is not
\* retried: the URL is appended to failed_summaries and the minimal summary
\* is returned; when that was the retry, the first call goes on after line
\* 193: it counts a retry success and returns the same summary; index_site
\* stores it.  An exception leaving generate_summary would be caught at
\* line 77, with no summary stored.
SummaryFellBack ==
    /\ i_pc = "summary"
    /\ \E outcome \in SummaryOutcomes :
          /\ Failed(outcome)
          /\ ~RetryAllowed(i_retry, outcome.error)
          /\ CountTokens(outcome)
          /\ i_log' = Logged(outcome)
    /\ failed_summaries' = RecordFailure(failed_summaries, page.url)
    /\ LET result == Fallback(page.text)
       IN  IF result.raised
           THEN UNCHANGED <<summaries, retry_successes>>
           ELSE /\ summaries' = DictSet(summaries, page.url, result.value)
                /\ retry_successes' =
                       retry_successes + (IF i_retry = 1 THEN 1 ELSE 0)
    /\ i_retry' = 0
    /\ i_next' = i_next + 1
    /\ i_pc' = "loop"
    /\ UNCHANGED <<full_content, i_pages, not_index_vars>>

\* lines 80-102: the loop is over
IndexComplete ==
    /\ i_pc = "loop"
    /\ i_next > Len(i_pages)
    /\ i_pc' = "done"
    /\ UNCHANGED <<summaries, full_content, total_input_tokens,
                   total_output_tokens, failed_summaries, retry_successes,
                   i_pages, i_next, i_retry, i_log, not_index_vars>>

NextIndex ==
    \/ IndexSite \/ SkipPage \/ StorePage \/ SummaryReturned
    \/ SummaryRetried \/ SummaryFellBack \/ IndexComplete

SpecIndex == InitIndex /\ [][NextIndex]_vars

----------------------------------------------------------------------------
(* QueryProcessor.ask, find_relevant_pages, build_context, generate_answer *)
(* (src/processor.py)                                                      *)
(*                                                                         *)
(* The processor is created after index_site has returned                  *)
(* (src/app.py:45-52) and reads indexer.summaries and                      *)
(* indexer.full_content.  The prompts (lines 64-111, 190-238) are sent to  *)
(* the services and read by nothing else; a service's answer is any        *)
(* outcome.  The context string is represented by the list of its          *)
(* "[Source: url]\n...\n" blocks, which "\n".join puts one after another.  *)

\* The indexer as index_site leaves it after crawl result result, when the
\* only SummaryService call for page i ends as kinds[i] says: with a valid
\* summary, or with a connection error.
RECURSIVE IndexAfter(_, _, _)
IndexAfter(result, kinds, n) ==
    IF n = 0
    THEN [summaries |-> <<>>, full_content |-> <<>>, failed_summaries |-> <<>>,
          log |-> <<>>]
    ELSE LET before == IndexAfter(result, kinds, n - 1)
             p      == result[n]
             failed == kinds[n] = "api_error"
         IN  IF TooShort(p.text) THEN before
             ELSE [summaries |->
                       DictSet(before.summaries, p.url,
                               IF failed THEN Fallback(p.text).value
                               ELSE ServiceSummary),
                   full_content |->
                       DictSet(before.full_content, p.url, p.text),
                   failed_summaries |->
                       IF failed THEN Append(before.failed_summaries, p.url)
                       ELSE before.failed_summaries,
                   log |->
                       Append(before.log,
                              [url |-> p.url, retry |-> 0,
                               outcome |->
                                   IF failed
                                   THEN [kind |-> "api_error",
                                         usage |-> NoUsage,
                                         error |-> ConnectionErrorText]
                                   ELSE [kind |-> "summary",
                                         usage |-> NoUsage,
                                         error |-> <<>>]])]

Questions == { << "What", " ", "is", " ", "AI", "?" >>, << "Hind", "?" >> }

\* a URL the index does not hold
UnknownUrl == Site \o << "/", "hallucinated" >>

SelectableUrls == { PageUrl(i) : i \in 1..MaxCrawled } \cup { UnknownUrl }

RECURSIVE UrlListsOf(_)
UrlListsOf(n) ==
    IF n = 0 THEN { <<>> }
    ELSE { <<>> } \cup
         { << u >> \o l : u \in SelectableUrls, l \in UrlListsOf(n - 1) }

\* The outcomes of the SelectionService call (lines 72-114): a response
\* parsed into a PageSelection with any list of URLs; a response json.loads
\* rejects; no response.
SelectionOutcomes ==
    { [kind |-> "selection", relevant_urls |-> l, error |-> <<>>] :
          l \in UrlListsOf(MaxSelected) }
    \cup { [kind |-> "invalid_json", relevant_urls |-> <<>>,
            error |-> JSONDecodeErrorText],
           [kind |-> "api_error", relevant_urls |-> <<>>,
            error |-> ConnectionErrorText] }

\* Mutant: hallucinated URLs are not filtered out.
valid_urls_unfiltered(relevant_urls, content) == relevant_urls

\* lines 119-122
valid_urls(relevant_urls, content) ==
    SelectSeq(relevant_urls, LAMBDA u : u \in Keys(content))

\* Mutant: the fallback is the empty list.
all_pages_none(content) == <<>>

\* lines 127 and 134: list(self.indexer.full_content.keys())
all_pages(content) == DictKeys(content)

\* lines 113-134
find_relevant_pages(outcome, content) ==
    IF Failed(outcome) THEN all_pages(content)
    ELSE LET valid == valid_urls(outcome.relevant_urls, content)
         IN  IF valid = <<>> THEN all_pages(content) ELSE valid

\* lines 147-170: the blocks appended for urls when char_count characters
\* are already used
RECURSIVE context_parts(_, _, _, _)
context_parts(urls, content, max_chars, char_count) ==
    IF urls = <<>> THEN <<>>
    ELSE IF Head(urls) \notin Keys(content)
    THEN context_parts(Tail(urls), content, max_chars, char_count)
    ELSE LET text            == DictGet(content, Head(urls))
             available_space == max_chars - char_count
         IN  IF available_space <= 0 THEN <<>>
             ELSE IF text.len <= available_space
             THEN << [source |-> Head(urls), content |-> text,
                      ellipsis |-> FALSE] >>
                  \o context_parts(Tail(urls), content, max_chars,
                                   char_count + text.len)
             ELSE << [source |-> Head(urls),
                      content |-> Prefix(text, available_space - 100),
                      ellipsis |-> TRUE] >>

\* l[::-1]
Reverse(l) == [i \in DOMAIN l |-> l[Len(l) + 1 - i]]

\* Mutant: the URL list is walked from its end.
build_context_backwards(urls, content, max_chars) ==
    context_parts(Reverse(urls), content, max_chars, 0)

\* lines 136-172
build_context(urls, content, max_chars) ==
    context_parts(urls, content, max_chars, 0)

AttributeErrorText ==
    << "'NoneType'", " ", "object", " ", "has", " ", "no", " ", "attribute" >>

\* The outcomes of the AnswerService call (lines 189-241): a response
\* parsed into an AnswerGeneration, with or without usage; a response
\* json.loads rejects; no response.
AnswerOutcomes ==
    { [kind |-> "answer", usage |-> u, sources_used |-> l, error |-> <<>>] :
          u \in {NoUsage, SomeUsage}, l \in { <<>>, << UnknownUrl >> } }
    \cup { [kind |-> "invalid_answer", usage |-> SomeUsage,
            sources_used |-> <<>>, error |-> ValidationErrorText],
           [kind |-> "invalid_json", usage |-> SomeUsage,
            sources_used |-> <<>>, error |-> JSONDecodeErrorText],
           [kind |-> "api_error", usage |-> NoUsage,
            sources_used |-> <<>>, error |-> ConnectionErrorText] }

AnswerText == << "AI", " ", "on", " ", "tehisintellekt" >>

\* the exception the try block of lines 189-252 ends with, <<>> if none:
\* the one the service call or the parsing raised, or the AttributeError of
\* lines 248-249 when response.usage is None
AnswerError(outcome) ==
    IF Failed(outcome) THEN outcome.error
    ELSE IF ~outcome.usage.present THEN AttributeErrorText
    ELSE <<>>

\* Mutant: the except branch of lines 254-262 is missing; an exception
\* leaves ask without a result.
generate_answer_uncaught(question, sources, outcome) ==
    IF AnswerError(outcome) # <<>>
    THEN [user_question |-> <<>>, answer |-> <<>>,
          usage |-> [input_tokens |-> 0, output_tokens |-> 0],
          sources |-> <<>>]
    ELSE [user_question |-> question, answer |-> << "AI" >>,
          usage |-> [input_tokens |-> outcome.usage.prompt_tokens,
                     output_tokens |-> outcome.usage.completion_tokens],
          sources |-> sources]

\* Mutant: the sources are the ones the service reports to have used.
generate_answer_self_reported(question, sources, outcome) ==
    [user_question |-> question,
     answer |-> IF AnswerError(outcome) = <<>> THEN << "AI" >>
                ELSE << "Error generating answer: " >> \o AnswerError(outcome),
     usage |-> IF AnswerError(outcome) = <<>>
               THEN [input_tokens |-> outcome.usage.prompt_tokens,
                     output_tokens |-> outcome.usage.completion_tokens]
               ELSE [input_tokens |-> 0, output_tokens |-> 0],
     sources |-> IF AnswerError(outcome) = <<>> THEN outcome.sources_used
                 ELSE sources]

\* Mutant: the error response reports the tokens of the rejected response.
generate_answer_usage_kept(question, sources, outcome) ==
    [user_question |-> question,
     answer |-> IF AnswerError(outcome) = <<>> THEN << "AI" >>
                ELSE << "Error generating answer: " >> \o AnswerError(outcome),
     usage |-> [input_tokens |-> outcome.usage.prompt_tokens,
                output_tokens |-> outcome.usage.completion_tokens],
     sources |-> sources]

\* lines 240-262
generate_answer(question, sources, outcome) ==
    LET e == AnswerError(outcome)
    IN  IF e = <<>>
        THEN [user_question |-> question, answer |-> AnswerText,
              usage |-> [input_tokens |-> outcome.usage.prompt_tokens,
                         output_tokens |-> outcome.usage.completion_tokens],
              sources |-> sources]
        ELSE [user_question |-> question,
              answer |-> << "Error generating answer: " >> \o e,
              usage |-> [input_tokens |-> 0, output_tokens |-> 0],
              sources |-> sources]

InitAsk ==
    /\ CrawlerOff /\ UrlOff /\ TruncOff /\ ExtractOff /\ LateOff
    /\ \E result \in CrawlResults :
          \E kinds \in [DOMAIN result -> {"summary", "api_error"}] :
             LET built == IndexAfter(result, kinds, Len(result))
             IN  /\ i_pages = result
                 /\ i_next = Len(result) + 1
                 /\ summaries = built.summaries
                 /\ full_content = built.full_content
                 /\ failed_summaries = built.failed_summaries
                 /\ i_log = built.log
    /\ total_input_tokens = 0 /\ total_output_tokens = 0
    /\ retry_successes = 0 /\ i_retry = 0 /\ i_pc = "done"
    /\ a_question = <<>> /\ a_relevant = <<>> /\ a_context = <<>>
    /\ a_result = NoResult /\ a_selection = NoSelection
    /\ a_answer = NoAnswer
    /\ a_pc = "idle" /\ a_asks = 0

not_ask_vars == <<crawl_vars, url_vars, trunc_vars, extract_vars, index_vars,
                  late_vars>>

\* lines 28-41 and 64-111: ask is called; find_relevant_pages awaits the
\* selection service
Ask ==
    /\ a_pc \in {"idle", "returned"}
    /\ a_asks < MaxAsks
    /\ a_asks' = a_asks + 1
    /\ \E question \in Questions : a_question' = question
    /\ a_relevant' = <<>>
    /\ a_context' = <<>>
    /\ a_selection' = NoSelection
    /\ a_answer' = NoAnswer
    /\ a_result' = NoResult
    /\ a_pc' = "select"
    /\ UNCHANGED not_ask_vars

\* lines 113-134, 41-49 and 189-238: the selection service answers or
\* fails; find_relevant_pages returns, build_context builds the context and
\* generate_answer awaits the answer service
Selected ==
    /\ a_pc = "select"
    /\ \E outcome \in SelectionOutcomes :
          /\ a_selection' = outcome
          /\ a_relevant' = find_relevant_pages(outcome, full_content)
    /\ a_context' = build_context(a_relevant', full_content, 180000)
    /\ a_pc' = "answer"
    /\ UNCHANGED <<a_question, a_result, a_answer, a_asks, not_ask_vars>>

\* lines 240-262 and 51: the answer service answers or fails; ask returns
Answered ==
    /\ a_pc = "answer"
    /\ \E outcome \in AnswerOutcomes :
          /\ a_answer' = outcome
          /\ a_result' = generate_answer(a_question, a_relevant, outcome)
    /\ a_pc' = "returned"
    /\ UNCHANGED <<a_question, a_relevant, a_context, a_selection, a_asks,
                   not_ask_vars>>

NextAsk == Ask \/ Selected \/ Answered

SpecAsk == InitAsk /\ [][NextAsk]_vars

----------------------------------------------------------------------------
(* SpecContext: build_context applied to small indexes and budgets         *)

\* text lengths below, at and above the 100 characters of line 167
ContextLens == { 40, 100, 130 }

\* full_content of an index of at most MaxCrawled pages
ContentMaps ==
    UNION { { [i \in 1..n |-> [key |-> PageUrl(i),
                               value |-> Text(ToString(i), f[i])]] :
                  f \in [1..n -> ContextLens] } : n \in 0..MaxCrawled }

Budgets == { 50 * k : k \in 0..MaxBudget }

InitContext ==
    /\ CrawlerOff /\ UrlOff /\ TruncOff /\ ExtractOff /\ IndexOff /\ AskOff
    /\ AppOff
    /\ c_urls \in UrlListsOf(MaxSelected + 1)
    /\ c_content \in ContentMaps
    /\ c_max \in Budgets
    /\ c_out = <<>>
    /\ c_pc = "called"

\* lines 136-172
BuildContext ==
    /\ c_pc = "called"
    /\ c_out' = build_context(c_urls, c_content, c_max)
    /\ c_pc' = "returned"
    /\ UNCHANGED <<c_urls, c_content, c_max, crawl_vars, url_vars, trunc_vars,
                   extract_vars, index_vars, ask_vars, app_vars>>

NextContext == BuildContext

SpecContext == InitContext /\ [][NextContext]_vars

----------------------------------------------------------------------------
(* The application (src/app.py): lifespan                                  *)
(*                                                                         *)
(* SpecStartup is the start of the process: lifespan creates the           *)
(* ContentIndexer, awaits index_site (the actions of NextIndex) and        *)
(* creates the QueryProcessor.  index_site returns for every crawl result  *)
(* and every service outcome, so the except branch of lines 49-51 is not   *)
(* taken.                                                                  *)

not_startup_vars ==
    <<crawl_vars, url_vars, trunc_vars, extract_vars, ask_vars, context_vars,
      r_pc, r_relevant, r_status>>

InitStartup ==
    /\ CrawlerOff /\ UrlOff /\ TruncOff /\ ExtractOff /\ AskOff /\ ContextOff
    /\ IndexOff
    /\ api_key \in BOOLEAN
    /\ indexer = FALSE /\ processor = FALSE
    /\ s_pc = "start"
    /\ r_pc = [r \in Requests |-> "off"]
    /\ r_relevant = [r \in Requests |-> <<>>]
    /\ r_status = [r \in Requests |-> 0]

\* lines 37-41: no API key: lifespan raises ValueError
StartupAborted ==
    /\ s_pc = "start"
    /\ ~api_key
    /\ s_pc' = "aborted"
    /\ UNCHANGED <<api_key, indexer, processor, index_vars, not_startup_vars>>

\* lines 44-47 and src/indexer.py:18-43: the indexer is created and
\* index_site is awaited
IndexerCreated ==
    /\ s_pc = "start"
    /\ api_key
    /\ indexer' = TRUE
    /\ summaries' = <<>> /\ full_content' = <<>>
    /\ total_input_tokens' = 0 /\ total_output_tokens' = 0
    /\ failed_summaries' = <<>> /\ retry_successes' = 0
    /\ i_pc' = "idle"
    /\ s_pc' = "indexing"
    /\ UNCHANGED <<api_key, processor, i_pages, i_next, i_retry, i_log,
                   not_startup_vars>>

\* lines 48 and 53-57: index_site has returned; the processor is created
\* and the application starts to serve
ProcessorCreated ==
    /\ s_pc = "indexing"
    /\ i_pc = "done"
    /\ processor' = TRUE
    /\ s_pc' = "serving"
    /\ UNCHANGED <<api_key, indexer, index_vars, not_startup_vars>>

NextStartup ==
    \/ StartupAborted \/ IndexerCreated \/ ProcessorCreated
    \/ IndexSite \/ SkipPage \/ StorePage \/ SummaryReturned
    \/ SummaryRetried \/ SummaryFellBack \/ IndexComplete

SpecStartup == InitStartup /\ [][NextStartup]_vars

----------------------------------------------------------------------------
(* The application (src/app.py): the /ask endpoint                         *)
(*                                                                         *)
(* SpecServe is the application after start-up, with MaxRequests /ask      *)
(* requests in flight; their handlers are coroutines that interleave at    *)
(* the two service calls of processor.ask.  It starts either with the      *)
(* globals unset (the application object used without its lifespan, as     *)
(* src/tests/test_app.py:112-118 does) or in the state lifespan leaves.    *)

\* Mutant: the test of line 135 is missing.
AskAllowedOnceCreated(proc, sums) == proc

\* lines 132-136: neither 503 is raised
AskAllowed(proc, sums) == proc /\ sums # <<>>

\* lines 138-144: the status of the response, given whether processor.ask
\* raised
AskStatus(raised) == IF raised THEN 500 ELSE 200

\* Mutant: a URL that was selected is removed from the index.
full_content_popped(content, urls) ==
    SelectSeq(content, LAMBDA item :
                  \A i \in DOMAIN urls : urls[i] # item.key)

\* src/processor.py:119-134 and 150-154: full_content after
\* find_relevant_pages and build_context have tested, listed and read its
\* keys: as before
full_content_read(content, urls) == content

\* the selection outcomes of the requests: lists of at most one URL
ServeSelectionOutcomes ==
    { outcome \in SelectionOutcomes : Len(outcome.relevant_urls) <= 1 }

InitServe ==
    /\ CrawlerOff /\ UrlOff /\ TruncOff /\ ExtractOff /\ AskOff /\ ContextOff
    /\ \/ /\ IndexOff
          /\ api_key = FALSE /\ indexer = FALSE /\ processor = FALSE
          /\ s_pc = "start"
       \/ /\ \E result \in CrawlResults :
                \E kinds \in [DOMAIN result -> {"summary", "api_error"}] :
                   LET built == IndexAfter(result, kinds, Len(result))
                   IN  /\ i_pages = result
                       /\ i_next = Len(result) + 1
                       /\ summaries = built.summaries
                       /\ full_content = built.full_content
                       /\ failed_summaries = built.failed_summaries
                       /\ i_log = built.log
          /\ total_input_tokens = 0 /\ total_output_tokens = 0
          /\ retry_successes = 0 /\ i_retry = 0 /\ i_pc = "done"
          /\ api_key = TRUE /\ indexer = TRUE /\ processor = TRUE
          /\ s_pc = "serving"
    /\ r_pc = [r \in Requests |-> "idle"]
    /\ r_relevant = [r \in Requests |-> <<>>]
    /\ r_status = [r \in Requests |-> 0]

not_serve_vars ==
    <<crawl_vars, url_vars, trunc_vars, extract_vars, ask_vars, context_vars,
      api_key, indexer, processor, s_pc>>

index_fields ==
    <<summaries, total_input_tokens, total_output_tokens, failed_summaries,
      retry_successes, i_pages, i_next, i_retry, i_pc, i_log>>

\* lines 132-136: the request is answered 503
AskRejected(r) ==
    /\ r_pc[r] = "idle"
    /\ ~AskAllowed(processor, summaries)
    /\ r_status' = [r_status EXCEPT ![r] = 503]
    /\ r_pc' = [r_pc EXCEPT ![r] = "done"]
    /\ UNCHANGED <<r_relevant, full_content, index_fields, not_serve_vars>>

\* lines 132-139 and src/processor.py:38-111: processor.ask is called;
\* find_relevant_pages awaits the selection service
AskAccepted(r) ==
    /\ r_pc[r] = "idle"
    /\ AskAllowed(processor, summaries)
    /\ r_pc' = [r_pc EXCEPT ![r] = "select"]
    /\ UNCHANGED <<r_relevant, r_status, full_content, index_fields,
                   not_serve_vars>>

\* src/processor.py:113-134, 41-49 and 189-238: the selection service
\* answers or fails; the context is built; generate_answer awaits the answer
\* service
AskSelected(r) ==
    /\ r_pc[r] = "select"
    /\ \E outcome \in ServeSelectionOutcomes :
          r_relevant' = [r_relevant EXCEPT
                             ![r] = find_relevant_pages(outcome, full_content)]
    /\ full_content' = full_content_read(full_content, r_relevant'[r])
    /\ r_pc' = [r_pc EXCEPT ![r] = "answer"]
    /\ UNCHANGED <<r_status, index_fields, not_serve_vars>>

\* src/processor.py:240-262 and lines 139-144: the answer service answers
\* or fails; processor.ask returns for every outcome
\* (src/processor.py:254), so the handler returns its response
AskAnswered(r) ==
    /\ r_pc[r] = "answer"
    /\ r_status' = [r_status EXCEPT ![r] = AskStatus(FALSE)]
    /\ r_pc' = [r_pc EXCEPT ![r] = "done"]
    /\ UNCHANGED <<r_relevant, full_content, index_fields, not_serve_vars>>

\* the response has been sent; the next request comes in
AskAgain(r) ==
    /\ r_pc[r] = "done"
    /\ r_pc' = [r_pc EXCEPT ![r] = "idle"]
    /\ r_relevant' = [r_relevant EXCEPT ![r] = <<>>]
    /\ r_status' = [r_status EXCEPT ![r] = 0]
    /\ UNCHANGED <<full_content, index_fields, not_serve_vars>>

NextServe ==
    \E r \in Requests :
        \/ AskRejected(r) \/ AskAccepted(r) \/ AskSelected(r)
        \/ AskAnswered(r) \/ AskAgain(r)

SpecServe == InitServe /\ [][NextServe]_vars

----------------------------------------------------------------------------
(* Properties: crawl_site (Spec, FairSpec)                                 *)

HostOf(s) == hostname(urlparse(s).netloc)

\* The claim's reading of a failed fetch: an error, a non-2xx status or a
\* content type that is not HTML.
FetchFailed(resp) ==
    \/ resp.error # "none"
    \/ resp.status_code \notin 200..299
    \/ ~HasTextHtml(resp.content_type)

\* C1: within one crawl_site run no two fetches are issued for URLs with the
\* same normalized form.
C1_NoNormalizedRevisit ==
    \A u \in BagToSet(fetched) :
        /\ CopiesIn(u, fetched) = 1
        /\ \A v \in BagToSet(fetched) :
              u # v => _normalize_url(u) # _normalize_url(v)

\* C2: in every state of the crawl loop, and in the returned list, there are
\* at most max_pages pages.
C2_AtMostMaxPages ==
    pc # "off" => Len(pages) <= max_pages

\* C2 witness: the loop stopped at the page limit with URLs still pending.
C2_Witness ==
    /\ pc = "done"
    /\ max_pages >= 2 /\ Len(pages) = max_pages
    /\ to_visit # {}

\* C3: every page, every URL in the frontier and every URL fetched has the
\* host of the seed URL.
C3_SameHostOnly ==
    pc \notin {"off", "idle"} =>
        /\ \A i \in DOMAIN pages : HostOf(pages[i].url) = HostOf(base_url)
        /\ \A u \in to_visit : HostOf(u) = HostOf(base_url)
        /\ \A u \in BagToSet(fetched) : HostOf(u) = HostOf(base_url)

\* C3 witness: a fetched page linked to a subdomain and to another host, and
\* a second page was fetched.
C3_Witness ==
    /\ pc = "sleep" /\ FetchSucceeded(response)
    /\ \E h \in response.links : HostOf(h) = <<"sub.", "example.com">>
    /\ \E h \in response.links : HostOf(h) = <<"external.com">>
    /\ Len(pages) >= 2

\* C4: a fetch that fails, returns a non-2xx status or a non-HTML content
\* type appends no page, inserts nothing into the frontier, and the loop goes
\* on to its delay and the next iteration.
C4_FailedFetchAddsNothing ==
    [][ (pc = "fetch" /\ pc' # "fetch" /\ FetchFailed(response')) =>
            /\ pages' = pages
            /\ to_visit' = to_visit
            /\ pc' = "sleep" ]_vars

\* C4 witness: after a failed fetch whose body linked to a followable URL not
\* yet visited, the pages and the pending URLs are still there.
C4_Witness ==
    /\ pc = "sleep" /\ FetchFailed(response)
    /\ LinksToFollow(response.links, base_domain, visited \cup to_visit) # {}
    /\ Len(pages) >= 1
    /\ to_visit # {}

\* C5: every crawl_site call terminates and returns, whatever the link graph
\* and the fetch outcomes, given that every fetch completes or fails.
C5_CrawlTerminates ==
    (pc \in {"loop", "fetch", "sleep"}) ~> (pc = "done")

\* C5 witness: a run over a graph with a failed fetch returned after the
\* frontier was exhausted.
C5_Witness ==
    /\ pc = "done" /\ to_visit = {}
    /\ Len(pages) >= 2
    /\ BagCardinality(fetched) > Len(pages)

----------------------------------------------------------------------------
(* Properties: URL normalization and link filtering (SpecUrl)              *)

\* The (name, value) pairs of a query string, blank values included: what
\* "the query parameters of a URL" are, independently of parse_qs.
RECURSIVE AllPairs(_)
AllPairs(fields) ==
    IF fields = <<>> THEN <<>>
    ELSE LET f  == Head(fields)
             eq == Find(f, "=")
             one == IF f = <<>> THEN <<>>
                    ELSE IF eq = 0
                    THEN << [name |-> Unquote(f), value |-> <<>>] >>
                    ELSE << [name  |-> Unquote(SubSeq(f, 1, eq - 1)),
                             value |-> Unquote(SubSeq(f, eq + 1, Len(f)))] >>
         IN  one \o AllPairs(Tail(fields))

QueryParameters(query) ==
    IF query = <<>> THEN <<>> ELSE AllPairs(Split(query, "&"))

\* The values a parameter name carries, in order of appearance.
ValuesOf(pairs, name) ==
    LET mine == SelectSeq(pairs, LAMBDA p : p.name = name)
    IN  [i \in DOMAIN mine |-> mine[i].value]

PathHasSkipExtension(s) ==
    \E ext \in skip_extensions : EndsWith(Lower(urlparse(s).path), ext)

\* C6: _normalize_url is idempotent: normalizing a normalized URL returns it
\* unchanged, for every absolute URL.
C6_NormalizeIdempotent ==
    u_pc \in {"renormalized", "filtered"} => u_norm2 = u_norm

\* C6 witness: a URL that normalization changed has been normalized twice.
C6_Witness ==
    /\ u_pc = "renormalized"
    /\ u_norm # u_in
    /\ urlparse(u_norm).query # <<>>
    /\ u_norm2 = u_norm

\* C7: the normalized URL has no fragment and no utm_* parameter, carries
\* every other query parameter of the input with its values, and has the
\* input's scheme, host, path and params.
C7_NormalizeStripsOnlyTracking ==
    u_pc \in {"normalized", "renormalized", "filtered"} =>
        LET a  == urlparse(u_in)
            b  == urlparse(u_norm)
            pa == QueryParameters(a.query)
            pb == QueryParameters(b.query)
        IN  /\ b.fragment = <<>>
            /\ \A i \in DOMAIN pb : pb[i].name \notin utm_params
            /\ \A i \in DOMAIN pa :
                  pa[i].name \notin utm_params =>
                      ValuesOf(pb, pa[i].name) = ValuesOf(pa, pa[i].name)
            /\ b.scheme = a.scheme /\ b.netloc = a.netloc
            /\ b.path = a.path /\ b.params = a.params

\* C8: _should_skip_url answers skip for a normalized URL exactly when the
\* URL's path ends, case-insensitively, with a skip extension.
C8_SkipIffPathExtension ==
    u_pc = "filtered" => (u_skip <=> PathHasSkipExtension(u_norm))

----------------------------------------------------------------------------
(* Properties: smart_truncate (SpecTruncate)                               *)

\* C9: smart_truncate returns the text unchanged whenever
\* len(text) <= max_chars.
C9_TruncateIdentityWhenFits ==
    (t_pc = "returned" /\ Len(t_text) <= t_max) => t_out = t_text

\* C9 witness: a text exactly as long as the budget came back unchanged.
C9_Witness ==
    /\ t_pc = "returned"
    /\ Len(t_text) = t_max /\ t_max >= 3
    /\ t_out = t_text

\* C10: whenever len(text) > max_chars the output contains the first and the
\* last character of the text and the marker [...], and it is the first
\* max_chars // 3 characters, the share around the midpoint
\* (middle_index -/+ share/2) and the last max_chars // 3 characters, joined
\* by the separator.
C10_TruncatedShape ==
    (t_pc = "returned" /\ Len(t_text) > t_max) =>
        LET n     == Len(t_text)
            share == t_max \div 3
            mid   == n \div 2
        IN  /\ Contains(t_out, <<t_text[1]>>)
            /\ Contains(t_out, <<t_text[n]>>)
            /\ Contains(t_out, <<"[", ".", ".", ".", "]">>)
            /\ t_out = SubSeq(t_text, 1, share) \o Separator
                         \o SubSeq(t_text, mid - share \div 2 + 1,
                                   mid + share \div 2)
                         \o Separator
                         \o SubSeq(t_text, n - share + 1, n)

\* C11: for every text and every max_chars >= 0 the output is at most
\* max_chars plus the length of the two separators (18 characters) long.
C11_LengthBound ==
    (t_pc = "returned") => Len(t_out) <= t_max + 2 * Len(Separator)

----------------------------------------------------------------------------
(* Properties: extract_text (SpecExtract)                                  *)

\* the strings of the text nodes of a tree that lie inside an element whose
\* tag is in tags, and of those that lie inside no element satisfying gone
RECURSIVE StringsInside(_, _, _)
StringsInside(nodes, tags, inside) ==
    IF nodes = <<>> THEN {}
    ELSE LET node == Head(nodes)
         IN  (IF node.name = ""
              THEN (IF inside THEN { node.string } ELSE {})
              ELSE StringsInside(node.contents, tags,
                                 inside \/ node.name \in tags))
             \cup StringsInside(Tail(nodes), tags, inside)

RECURSIVE RetainedStrings(_)
RetainedStrings(nodes) ==
    IF nodes = <<>> THEN {}
    ELSE LET node == Head(nodes)
         IN  (IF node.name = "" THEN { node.string }
              ELSE IF node.name \in unwanted \/ IsButtonLink(node) THEN {}
              ELSE RetainedStrings(node.contents))
             \cup RetainedStrings(Tail(nodes))

\* the non-blank lines of a string, each without surrounding whitespace
LinesOf(s) ==
    LET parts == Split(s, "\n")
    IN  { Strip(parts[i]) : i \in DOMAIN parts } \ { <<>> }

OutputLines(out) ==
    IF out = <<>> THEN {}
    ELSE LET parts == Split(out, "\n") IN { parts[i] : i \in DOMAIN parts }

\* C12: the output of extract_text contains no line of text that occurs only
\* inside script, style, nav, header or footer elements, it contains every
\* line of text of every retained element, and it consists of non-empty
\* lines without leading or trailing whitespace.
C12_ExtractText ==
    (e_pc = "returned") =>
        LET dropped  == StringsInside(e_html, {"script", "style", "nav",
                                               "header", "footer"}, FALSE)
            retained == RetainedStrings(e_html)
        IN  /\ \A s \in dropped : \A l \in LinesOf(s) :
                   (\A r \in retained : ~Contains(r, l)) => ~Contains(e_out, l)
            /\ \A r \in retained : \A l \in LinesOf(r) :
                   l \in OutputLines(e_out)
            /\ \A l \in OutputLines(e_out) : l # <<>> /\ Strip(l) = l

\* C12 witness: a div with padded text and a nested nav: the output is the
\* div's text, trimmed, and nothing of the nav's.
C12_Witness ==
    /\ e_pc = "returned"
    /\ e_html = << Element("div", <<>>,
                      << TextNode(<< " ", "y", " " >>),
                         Element("nav", <<>>, << TextNode(<< "x" >>) >>) >>) >>
    /\ e_out = << "y" >>

----------------------------------------------------------------------------
(* Properties: index_site and generate_summary (SpecIndex)                 *)

\* the SummaryService calls made for url u, in order
CallsFor(u) == SelectSeq(i_log, LAMBDA call : call.url = u)

CrawledUrls == { i_pages[i].url : i \in DOMAIN i_pages }

SufficientUrls ==
    { i_pages[i].url : i \in { j \in DOMAIN i_pages : i_pages[j].text.len >= 100 } }

\* the degraded summary of a page with clean text t
Degraded(t) ==
    [topics |-> << "Error processing page" >>, key_points |-> <<>>,
     potential_questions |-> <<>>,
     summary |-> [body |-> t.body, len |-> IF t.len > 500 THEN 500 ELSE t.len]]

\* C13: a crawled page whose clean text has fewer than 100 characters is in
\* neither summaries nor full_content, and SummaryService is never called
\* for it.
C13_ShortPageSkipped ==
    \A i \in DOMAIN i_pages :
        i_pages[i].text.len < 100 =>
            /\ i_pages[i].url \notin Keys(summaries)
            /\ i_pages[i].url \notin Keys(full_content)
            /\ CallsFor(i_pages[i].url) = <<>>

\* C13 witness: index_site is over, its first page had 99 characters and is
\* not indexed, its second page is.
C13_Witness ==
    /\ i_pc = "done"
    /\ Len(i_pages) = 2
    /\ i_pages[1].text.len = 99
    /\ i_pages[1].url \notin Keys(full_content)
    /\ i_pages[2].url \in Keys(full_content)

\* C14: when index_site completes, summaries and full_content have the same
\* keys, all of them URLs of crawled pages with at least 100 characters of
\* clean text.
C14_SameKeys ==
    (i_pc = "done") =>
        /\ Keys(summaries) = Keys(full_content)
        /\ Keys(summaries) \subseteq SufficientUrls

\* C14 witness: index_site is over after a skipped page and a page whose
\* summary failed twice; the keys are the second page's URL.
C14_Witness ==
    /\ i_pc = "done"
    /\ Len(i_pages) = 2
    /\ i_pages[1].text.len = 99
    /\ Len(CallsFor(i_pages[2].url)) = 2
    /\ Keys(summaries) = { i_pages[2].url }
    /\ Keys(full_content) = { i_pages[2].url }

\* C15: after index_site every crawled page with at least 100 characters of
\* clean text is in full_content and in summaries, whatever the outcomes of
\* its SummaryService calls were.
C15_NeverDropped ==
    (i_pc = "done") =>
        \A u \in SufficientUrls :
            u \in Keys(full_content) /\ u \in Keys(summaries)

\* C15 witness: a page whose first call and whose retry failed is indexed.
C15_Witness ==
    /\ i_pc = "done"
    /\ \E u \in SufficientUrls :
          /\ Len(CallsFor(u)) = 2
          /\ Failed(CallsFor(u)[2].outcome)
          /\ u \in Keys(full_content) /\ u \in Keys(summaries)

\* C16: when a SummaryService call fails with a failure that is not a
\* validation error, no further call is made for the page, the page's
\* summary is the minimal summary (topics ["Error processing page"], no key
\* points, no questions, summary = first 500 characters of the clean text)
\* and the URL is appended to the failed list.
C16_NonValidationFailure ==
    [][ ( /\ i_pc = "summary"
          /\ Len(i_log') = Len(i_log) + 1
          /\ Failed(i_log'[Len(i_log')].outcome)
          /\ ~Contains(Lower(i_log'[Len(i_log')].outcome.error),
                       << "validation", " ", "error" >>) )
        => ( /\ i_pc' = "loop"
             /\ i_next' = i_next + 1
             /\ i_pages[i_next].url \in Keys(summaries')
             /\ DictGet(summaries', i_pages[i_next].url)
                    = Degraded(i_pages[i_next].text)
             /\ failed_summaries'
                    = Append(failed_summaries, i_pages[i_next].url) ) ]_vars

\* C16 witness: the only call for a page of 600 characters failed with a
\* connection error; its summary is the minimal one, 500 characters long,
\* and its URL is in the failed list.
C16_Witness ==
    /\ i_pc = "loop"
    /\ i_next = 2
    /\ i_pages[1].text.len = 600
    /\ Len(i_log) = 1
    /\ i_log[1].outcome.error = << "Connection", " ", "error" >>
    /\ DictGet(summaries, i_pages[1].url).summary.len = 500
    /\ DictGet(summaries, i_pages[1].url).topics = << "Error processing page" >>
    /\ failed_summaries = << i_pages[1].url >>

\* C17: SummaryService is called at most twice for a page; a second call
\* is made exactly when the first failed with a validation error (it is
\* made at once: the page is not left before it); a failed retry is not
\* retried.
C17_AtMostOneRetry ==
    \A u \in CrawledUrls :
        LET calls == CallsFor(u)
            first_invalid ==
                /\ calls # <<>>
                /\ Failed(calls[1].outcome)
                /\ Contains(Lower(calls[1].outcome.error),
                            << "validation", " ", "error" >>)
            underway ==
                /\ i_pc = "summary"
                /\ i_next \in DOMAIN i_pages
                /\ i_pages[i_next].url = u
        IN  /\ Len(calls) <= 2
            /\ Len(calls) = 2 => first_invalid
            /\ (first_invalid /\ Len(calls) = 1) => underway
            /\ Len(calls) = 2 => (calls[1].retry = 0 /\ calls[2].retry = 1)
            /\ (Len(calls) = 2 /\ Failed(calls[2].outcome)) => ~underway

\* C17 witness: index_site is over; one page had a validation error and a
\* failed retry (two calls), another a connection error (one call).
C17_Witness ==
    /\ i_pc = "done"
    /\ Len(i_pages) = 2
    /\ Len(CallsFor(i_pages[1].url)) = 2
    /\ Failed(CallsFor(i_pages[1].url)[2].outcome)
    /\ Len(CallsFor(i_pages[2].url)) = 1
    /\ Failed(CallsFor(i_pages[2].url)[1].outcome)

\* C18: retry_successes grows only when a retry (made after a validation
\* error) returned a valid summary, which is then stored; when the retry
\* fails too, retry_successes is unchanged, the page gets the minimal
\* summary and its URL is recorded in the failed list.
C18_RetrySuccessCounted ==
    [][ /\ retry_successes' # retry_successes =>
              /\ i_retry = 1
              /\ Len(i_log') = Len(i_log) + 1
              /\ ~Failed(i_log'[Len(i_log')].outcome)
              /\ retry_successes' = retry_successes + 1
              /\ DictGet(summaries', i_pages[i_next].url).topics
                     # << "Error processing page" >>
        /\ ( /\ i_pc = "summary" /\ i_retry = 1
             /\ Len(i_log') = Len(i_log) + 1
             /\ Failed(i_log'[Len(i_log')].outcome) )
           => ( /\ retry_successes' = retry_successes
                /\ DictGet(summaries', i_pages[i_next].url)
                       = Degraded(i_pages[i_next].text)
                /\ failed_summaries'
                       = Append(failed_summaries, i_pages[i_next].url) ) ]_vars

----------------------------------------------------------------------------
(* Properties: find_relevant_pages and ask (SpecAsk)                       *)

\* the selection service named no URL the index holds
NoIndexedUrlNamed(outcome) ==
    \A i \in DOMAIN outcome.relevant_urls :
        outcome.relevant_urls[i] \notin Keys(full_content)

\* l without its elements outside S, in the order of l
RECURSIVE Restrict(_, _)
Restrict(l, S) ==
    IF l = <<>> THEN <<>>
    ELSE (IF Head(l) \in S THEN << Head(l) >> ELSE <<>>) \o Restrict(Tail(l), S)

\* C19: find_relevant_pages returns every key of full_content when the
\* SelectionService call fails or names no indexed URL, and an ask call
\* whose selection service is unreachable returns sources equal to the set
\* of indexed URLs.
C19_FallbackToAllPages ==
    /\ ( /\ a_pc \in {"answer", "returned"}
         /\ \/ a_selection.kind # "selection"
            \/ NoIndexedUrlNamed(a_selection) )
       => ( /\ a_relevant = DictKeys(full_content)
            /\ { a_relevant[i] : i \in DOMAIN a_relevant } = Keys(full_content) )
    /\ ( a_pc = "returned" /\ a_selection.kind = "api_error" )
       => ( /\ { a_result.sources[i] : i \in DOMAIN a_result.sources }
                  = Keys(full_content)
            /\ Len(a_result.sources) = Cardinality(Keys(full_content)) )

\* C19 witness: the index holds two pages, the selection service was
\* unreachable and ask returned both URLs as sources.
C19_Witness ==
    /\ a_pc = "returned"
    /\ a_selection.kind = "api_error"
    /\ Cardinality(Keys(full_content)) = 2
    /\ Len(a_result.sources) = 2

\* C20: every URL find_relevant_pages returns is a key of full_content, and
\* when the SelectionService succeeds and names at least one indexed URL the
\* result is the service's list without the URLs that are not indexed, in
\* the service's order.
C20_OnlyIndexedUrls ==
    (a_pc \in {"answer", "returned"}) =>
        /\ \A i \in DOMAIN a_relevant : a_relevant[i] \in Keys(full_content)
        /\ ( a_selection.kind = "selection" /\ ~NoIndexedUrlNamed(a_selection) )
           => a_relevant = Restrict(a_selection.relevant_urls,
                                    Keys(full_content))

\* C20 witness: the service named a hallucinated URL before an indexed one
\* and only the indexed one was returned.
C20_Witness ==
    /\ a_pc = "answer"
    /\ a_selection.kind = "selection"
    /\ a_selection.relevant_urls = << UnknownUrl, PageUrl(2) >>
    /\ Cardinality(Keys(full_content)) = 2
    /\ a_relevant = << PageUrl(2) >>

----------------------------------------------------------------------------
(* Properties: build_context (SpecContext)                                 *)

RECURSIVE ContentChars(_)
\* the number of characters of page content in a context
ContentChars(blocks) ==
    IF blocks = <<>> THEN 0
    ELSE Head(blocks).content.len + ContentChars(Tail(blocks))

SourcesOf(blocks) == [i \in DOMAIN blocks |-> blocks[i].source]

\* C21: for every URL list, content map and max_chars >= 0 the context holds
\* at most max_chars characters of page content (the [Source: url] markers,
\* the newlines and the ellipsis not counted).
C21_ContentWithinBudget ==
    (c_pc = "returned") => ContentChars(c_out) <= c_max

\* C22: the [Source: url] blocks of the context are, in order, a prefix of
\* the URL list restricted to the URLs present in full_content; a URL
\* absent from full_content has no block.
C22_SourcesArePrefix ==
    (c_pc = "returned") =>
        LET indexed == Restrict(c_urls, Keys(c_content))
        IN  /\ Len(c_out) <= Len(indexed)
            /\ SourcesOf(c_out) = SubSeq(indexed, 1, Len(c_out))
            /\ \A i \in DOMAIN c_out : c_out[i].source \in Keys(c_content)

\* C22 witness: of an unknown URL and two indexed ones, the first indexed
\* one fits and the second is cut: two blocks, in list order.
C22_Witness ==
    /\ c_pc = "returned"
    /\ c_urls = << UnknownUrl, PageUrl(2), PageUrl(1) >>
    /\ Len(c_out) = 2
    /\ SourcesOf(c_out) = << PageUrl(2), PageUrl(1) >>
    /\ c_out[2].ellipsis

----------------------------------------------------------------------------
(* Properties: ask and generate_answer (SpecAsk)                           *)

\* r is an AskResponse for question q: the question, an answer, token
\* counts and a list of URLs
ValidAskResponse(r, q) ==
    /\ r.user_question = q
    /\ r.answer # <<>>
    /\ r.usage.input_tokens \in Nat /\ r.usage.output_tokens \in Nat
    /\ \A i \in DOMAIN r.sources : r.sources[i] \in Keys(full_content)

\* C23: ask never raises: for every question, every index (the empty one
\* included) and every outcome of the selection and of the answer service,
\* ask returns a valid AskResponse.
C23_AskAlwaysAnswers ==
    /\ a_pc \in {"idle", "select", "answer", "returned"}
    /\ (a_pc = "answer") =>
           \A outcome \in AnswerOutcomes :
               ValidAskResponse(generate_answer(a_question, a_relevant, outcome),
                                a_question)
    /\ (a_pc = "returned") => ValidAskResponse(a_result, a_question)

\* C23 witness: on the empty index, with the selection service and the
\* answer service both unreachable, ask returned a response.
C23_Witness ==
    /\ a_pc = "returned"
    /\ full_content = <<>>
    /\ a_selection.kind = "api_error"
    /\ a_answer.kind = "api_error"
    /\ a_result.user_question = a_question
    /\ a_result.sources = <<>>

\* C24: the sources of every AskResponse are the URL list find_relevant_pages
\* returned for the query, whether the AnswerService succeeded or failed,
\* and whatever sources_used it reported.
C24_SourcesAreStageA ==
    (a_pc = "returned") =>
        /\ a_result.sources = a_relevant
        /\ a_relevant = find_relevant_pages(a_selection, full_content)

\* C24 witness: the answer service succeeded and reported a URL that is not
\* among the selected ones; the sources are the selected ones.
C24_Witness ==
    /\ a_pc = "returned"
    /\ a_answer.kind = "answer" /\ a_answer.usage.present
    /\ a_answer.sources_used = << UnknownUrl >>
    /\ a_relevant # <<>>
    /\ a_result.sources = a_relevant

\* C25: when the AnswerService call fails or its output is invalid, the
\* AskResponse has the answer "Error generating answer: " followed by the
\* failure's text, input and output tokens 0, and the original question.
C25_AnswerFailure ==
    (a_pc = "returned" /\ a_answer.error # <<>>) =>
        /\ a_result.answer = << "Error generating answer: " >> \o a_answer.error
        /\ a_result.usage = [input_tokens |-> 0, output_tokens |-> 0]
        /\ a_result.user_question = a_question

\* C25 witness: the answer service's response, which reported token usage,
\* was not valid JSON; the response to the user reports no tokens.
C25_Witness ==
    /\ a_pc = "returned"
    /\ a_answer.kind = "invalid_json"
    /\ a_answer.usage.prompt_tokens > 0
    /\ a_result.usage.input_tokens = 0
    /\ a_result.answer = << "Error generating answer: ", "Expecting", " ", "value" >>

----------------------------------------------------------------------------
(* Properties: the visited set across crawl_site calls (Spec)              *)

\* C28: the visited set is scoped to one crawl run: the step that starts a
\* crawl_site call leaves no URL marked visited by an earlier call on the
\* same Crawler.
C28_VisitedScopedToRun ==
    [][(runs' # runs) => (visited' = {})]_vars

\* C29: in every state of a crawl run no URL is both in the frontier
\* to_visit and in the visited set, so no URL that was moved into visited is
\* in the frontier again.
C29_FrontierDisjointFromVisited ==
    to_visit \cap visited = {}

----------------------------------------------------------------------------
(* Properties: lifespan (SpecStartup)                                      *)

\* every summarization call of the index build failed without a response
BackendUnreachable ==
    /\ i_log # <<>>
    /\ \A i \in DOMAIN i_log : i_log[i].outcome.error = ConnectionErrorText

\* C27: when the index cannot be established (the crawl gives no usable
\* page, or no summarization call reaches the backend) startup aborts: the
\* application is never serving with an empty index or with an index built
\* without the backend.
C27_NoServingWithoutIndex ==
    (s_pc = "serving") => (summaries # <<>> /\ ~BackendUnreachable)

----------------------------------------------------------------------------
(* Properties: the /ask endpoint (SpecServe)                               *)

\* C26: once the index is built it is read-only: whatever the number of ask
\* calls, their interleaving and the outcomes of the services, no step of a
\* request changes summaries, full_content, the token totals,
\* failed_summaries or retry_successes.
C26_IndexReadOnly ==
    [][UNCHANGED <<summaries, full_content, total_input_tokens,
                   total_output_tokens, failed_summaries,
                   retry_successes>>]_vars

\* two requests are inside processor.ask at the same time, at different
\* service calls, over an index of two pages
C26_Witness ==
    /\ Len(summaries) = 2
    /\ r_pc[1] = "answer" /\ r_relevant[1] = <<DictKeys(full_content)[1]>>
    /\ r_pc[2] = "select"

----------------------------------------------------------------------------
(* Properties: pages and links of a fetch (Spec)                           *)

PagesWithUrl(u) == { i \in DOMAIN pages : pages[i].url = u }

\* C31: right after a fetch whose response has a 2xx status and an HTML
\* content type, pages holds exactly one Page with the fetched URL, and the
\* normalized same-host, non-filtered, not yet visited links of the response
\* are in the frontier to_visit.
C31_SuccessfulFetchGivesPage ==
    ( /\ pc = "sleep"
      /\ response.error = "none"
      /\ response.status_code \in 200..299
      /\ HasTextHtml(response.content_type) )
    => ( /\ Cardinality(PagesWithUrl(url)) = 1
         /\ LinksToFollow(response.links, base_domain, visited)
                \subseteq to_visit )

----------------------------------------------------------------------------
(* Properties: the truncated source of build_context (SpecContext)         *)

\* the blocks of a context that end with the ellipsis
Truncated(blocks) == { i \in DOMAIN blocks : blocks[i].ellipsis }

\* the budget left when block i of a context was appended
RemainingBefore(blocks, i, max_chars) ==
    max_chars - ContentChars(SubSeq(blocks, 1, i - 1))

\* C32: the context has at most one truncated block and it is the last block;
\* a block is truncated exactly when its page does not fit the remaining
\* budget, and it then holds the first (remaining budget - 100) characters
\* of the page (none when that number is not positive).
C32_OneTruncatedLastBlock ==
    (c_pc = "returned") =>
        /\ Cardinality(Truncated(c_out)) <= 1
        /\ \A i \in DOMAIN c_out :
              LET text      == DictGet(c_content, c_out[i].source)
                  remaining == RemainingBefore(c_out, i, c_max)
              IN  /\ c_out[i].ellipsis <=> (text.len > remaining)
                  /\ c_out[i].ellipsis =>
                        /\ i = Len(c_out)
                        /\ c_out[i].content.len
                               = IF remaining - 100 > 0
                                 THEN remaining - 100 ELSE 0

----------------------------------------------------------------------------
(* Properties: the order of fetches and pages (Spec)                       *)

\* C33: the first URL a crawl_site call fetches is the seed; pages grows only
\* at a fetch, by the fetched URL at its end, so it lists the pages in the
\* order of their fetches; when the fetch of the seed succeeds the first
\* page is the seed's.
C33_SeedFirstPagesInFetchOrder ==
    [][ /\ (pc = "fetch" /\ pc' # "fetch") =>
              /\ (fetched = EmptyBag) => (url = base_url)
              /\ \/ pages' = pages
                 \/ pages' = Append(pages, [url |-> url])
              /\ (fetched = EmptyBag /\ FetchSucceeded(response')) =>
                     (pages' = << [url |-> base_url] >>)
        /\ (pc # "fetch" /\ runs' = runs) => (pages' = pages)
        /\ (pages # <<>> /\ runs' = runs) =>
              (pages' # <<>> /\ pages'[1] = pages[1]) ]_vars

\* a seed that is not in normalized form was fetched first and the page it
\* links to second: two pages, in that order
C33_Witness ==
    /\ base_url = Site \o <<"/", "#", "top">>
    /\ Len(pages) = 2
    /\ pages[1].url = base_url
    /\ pages[2].url = Site \o <<"/", "a">>
    /\ pc = "done"

----------------------------------------------------------------------------
(* Properties: the two dictionaries during index_site (SpecIndex)          *)

\* C34: in every state of the indexer, also in the middle of index_site
\* while a SummaryService call is pending or has failed, every key of
\* summaries is a key of full_content.
C34_SummariesWithinContent ==
    Keys(summaries) \subseteq Keys(full_content)

\* the first page is indexed, the first call for the second page has failed
\* and its retry is pending: its text is stored, its summary is not
C34_Witness ==
    /\ i_pc = "summary" /\ i_retry = 1 /\ i_next = 2
    /\ Keys(summaries) = { i_pages[1].url }
    /\ Keys(full_content) = { i_pages[1].url, i_pages[2].url }

----------------------------------------------------------------------------
(* Properties: the politeness delay (Spec)                                 *)

\* C35: in a crawl run one delay is taken after every fetch attempt, whatever
\* its outcome, and before the next pop: while the delay after a fetch is
\* pending the fetch attempts are one more than the delays, and in every
\* other state, the pops and the end of the run among them, the delays taken
\* equal the fetch attempts; they are at least the pages fetched.
C35_OneDelayPerFetch ==
    /\ (pc = "sleep") => (BagCardinality(fetched) = delays + 1)
    /\ (pc # "sleep") => (BagCardinality(fetched) = delays)
    /\ (pc \in {"loop", "done"}) => (delays >= Len(pages))

\* a run of three fetches has ended: the seed's page and two fetches that
\* gave no page, three delays
C35_Witness ==
    /\ pc = "done"
    /\ BagCardinality(fetched) = 3
    /\ delays = 3
    /\ Len(pages) = 1

----------------------------------------------------------------------------
(* Properties: the failed list after index_site (SpecIndex)                *)

FailedUrls == { failed_summaries[i] : i \in DOMAIN failed_summaries }

----------------------------------------------------------------------------
(* Properties: the token totals (SpecIndex)                                *)

RECURSIVE PromptTokens(_)
\* the prompt tokens reported by the responses of a sequence of calls
PromptTokens(calls) ==
    IF calls = <<>> THEN 0
    ELSE (IF Head(calls).outcome.usage.present
          THEN Head(calls).outcome.usage.prompt_tokens ELSE 0)
         + PromptTokens(Tail(calls))

RECURSIVE CompletionTokens(_)
CompletionTokens(calls) ==
    IF calls = <<>> THEN 0
    ELSE (IF Head(calls).outcome.usage.present
          THEN Head(calls).outcome.usage.completion_tokens ELSE 0)
         + CompletionTokens(Tail(calls))

\* C37: no step lowers total_input_tokens or total_output_tokens, and after
\* every step, the last one of index_site among them, they are the sums of
\* the token counts reported by the responses received so far, those of
\* responses rejected afterwards included; a call without a response adds
\* nothing.
C37_TokenTotals ==
    [][ /\ total_input_tokens' >= total_input_tokens
        /\ total_output_tokens' >= total_output_tokens
        /\ total_input_tokens' = PromptTokens(i_log')
        /\ total_output_tokens' = CompletionTokens(i_log')
        /\ ( /\ Len(i_log') = Len(i_log) + 1
             /\ ~i_log'[Len(i_log')].outcome.usage.present )
           => ( /\ total_input_tokens' = total_input_tokens
                /\ total_output_tokens' = total_output_tokens ) ]_vars

\* index_site is over: the first page's response was rejected by validation
\* and its retry returned a summary, both reporting tokens; the call for the
\* second page failed without a response
C37_Witness ==
    /\ i_pc = "done"
    /\ Len(i_log) = 3
    /\ i_log[1].outcome.kind = "invalid_summary"
    /\ i_log[2].outcome.kind = "summary" /\ i_log[2].outcome.usage.present
    /\ i_log[3].outcome.kind = "api_error"
    /\ total_input_tokens = 2 * SomeUsage.prompt_tokens
    /\ total_output_tokens = 2 * SomeUsage.completion_tokens

----------------------------------------------------------------------------
(* Properties: sources and context blocks (SpecContext)                    *)

\* the lists find_relevant_pages can return: URLs of the index only
Selectable(urls, content) == \A i \in DOMAIN urls : urls[i] \in Keys(content)

\* C38: every URL of the sources of an AskResult (the list relevant_urls that
\* ask passes to build_context and to generate_answer) has a [Source: url]
\* block in the context built for the query, for every max_chars.
C38_SourcesHaveBlocks ==
    (c_pc = "returned" /\ Selectable(c_urls, c_content)) =>
        \A i \in DOMAIN c_urls :
            \E j \in DOMAIN c_out : c_out[j].source = c_urls[i]

====
